---------------------------- MODULE Spec2Model ----------------------------
(***************************************************************************)
(* Model of fairseq/tasks/bt_translation.py and                            *)
(* fairseq/tasks/multilingual_translation.py (cccntu/multiDDS).            *)
(*                                                                         *)
(* Strings are sequences of one-character strings, so that str.split,      *)
(* str.isdigit, int() and float() are computed character by character.     *)
(* Python floats are modelled as exact rationals <<num, den>> (den > 0,    *)
(* lowest terms); rounding of IEEE doubles is not modelled.                *)
(***************************************************************************)
EXTENDS Integers, Sequences, FiniteSets, TLC

VARIABLES
    x,                      \* parse_lambda_config: the argument of the last call
    parsed,                 \* parse_lambda_config: what the last call returned or raised
    args,                   \* the task's configuration (args.*)
    lang_pairs,             \* self.lang_pairs
    lambda_parallel,        \* self.lambda_parallel
    lambda_parallel_steps,  \* self.lambda_parallel_steps
    lambda_otf_bt,          \* self.lambda_otf_bt
    lambda_otf_bt_steps,    \* self.lambda_otf_bt_steps
    lambda_denoising,       \* self.lambda_denoising
    lambda_denoising_steps, \* self.lambda_denoising_steps
    baseline,               \* self.baseline
    params,                 \* the primary optimizer's parameters: "orig" or "perturbed"
    \* the last call on the task (the fields of other methods are blank)
    op,                     \* the method called
    exc,                    \* the exception it raised, "none" if it returned
    num_updates,            \* update_step: its argument
    sample,                 \* train_step: the batch
    valid_sample,           \* train_step: the held-out batch self.dev_itr yields (bt_dds)
    ignore_grad,            \* train_step: the flag
    ret,                    \* train_step: the totals returned
    calls,                  \* train_step: the collaborator calls made, in order
    \* the task object and build_model
    task,                   \* the class of the task
    model_lang_pairs,       \* self.model_lang_pairs
    sequence_generators,    \* self.sequence_generators
    backtranslators,        \* self.backtranslators
    data_optimizer,         \* self.data_optimizer: the sub-models whose parameters it steps
    built_model,            \* build_model: what models.build_model constructed
    model_args,             \* build_model: its argument
    message,                \* build_model: the message of the error raised
    \* setting the task up and loading its data
    dict_files,             \* the dictionary file of every language
    prepared,               \* prepare: what it returned
    alter_call,             \* alter_dataset_langtok: its arguments
    altered,                \* alter_dataset_langtok: what it returned
    data_files,             \* the files of parallel data that exist
    datasets,               \* self.datasets
    backtranslate_datasets, \* self.backtranslate_datasets
    load_split,             \* load_dataset: its argument
    \* aggregating the logs
    aggregate_call,         \* aggregate_logging_outputs: its arguments
    flat_logging_output     \* aggregate_logging_outputs: what it returned

parse_vars == <<x, parsed>>
lambdas == <<lambda_parallel, lambda_parallel_steps, lambda_otf_bt,
             lambda_otf_bt_steps, lambda_denoising, lambda_denoising_steps>>
step_vars == <<sample, valid_sample, ignore_grad, ret, calls>>
build_vars == <<task, model_lang_pairs, sequence_generators, backtranslators,
                data_optimizer, built_model, model_args, message>>
log_vars == <<aggregate_call, flat_logging_output>>
setup_vars == <<dict_files, prepared, alter_call, altered, data_files, datasets,
                backtranslate_datasets, load_split, log_vars>>
task_vars == <<args, lang_pairs, lambdas, baseline, params, op, exc, num_updates,
               step_vars, build_vars, setup_vars>>
vars == <<parse_vars, task_vars>>

---------------------------------------------------------------------------
(* Bounds of the model.                                                    *)

\* longest configuration string handed to parse_lambda_config in SpecParse
MaxLen == 7

\* largest step count handed to update_step
MaxUpdates == 4

\* largest checkpoint step of the schedules of SpecSched
MaxStep == 3

\* largest number of entries of a batch that are not the pair's data
MaxOdd == 2

\* largest index a dictionary gives to pad, eos or unk in SpecPrepare
MaxIndex == 2

---------------------------------------------------------------------------
(* Python values.                                                          *)

\* Python's None.  A parsed schedule has at least two checkpoints
\* (len(split) > 1), so the empty tuple is free to stand for None.
None == <<>>

Digits == {"0", "1", "2", "3", "4", "5", "6", "7", "8", "9"}

\* the characters configuration strings are drawn from
Chars == {"0", "1", "a", ":", ",", "."}

DigitVal(c) ==
    CASE c = "0" -> 0 [] c = "1" -> 1 [] c = "2" -> 2 [] c = "3" -> 3
      [] c = "4" -> 4 [] c = "5" -> 5 [] c = "6" -> 6 [] c = "7" -> 7
      [] c = "8" -> 8 [] c = "9" -> 9

Abs(n) == IF n < 0 THEN -n ELSE n

RECURSIVE Gcd(_, _)
Gcd(a, b) == IF b = 0 THEN a ELSE Gcd(b, a % b)

RECURSIVE Pow10(_)
Pow10(n) == IF n = 0 THEN 1 ELSE 10 * Pow10(n - 1)

\* a float as a rational in lowest terms with a positive denominator
Rat(n, d) ==
    LET g == Gcd(Abs(n), Abs(d))
        s == IF d < 0 THEN -1 ELSE 1
    IN  <<(s * n) \div g, (s * d) \div g>>

RatInt(n) == <<n, 1>>
RatAdd(a, b) == Rat(a[1] * b[2] + b[1] * a[2], a[2] * b[2])
RatSub(a, b) == Rat(a[1] * b[2] - b[1] * a[2], a[2] * b[2])
RatMul(a, b) == Rat(a[1] * b[1], a[2] * b[2])
RatDiv(a, b) == Rat(a[1] * b[2], a[2] * b[1])
RatLe(a, b) == a[1] * b[2] <= b[1] * a[2]
RatLt(a, b) == a[1] * b[2] < b[1] * a[2]

\* str.split(sep): the pieces between the separators, empty pieces kept
RECURSIVE Split(_, _)
Split(s, sep) ==
    IF \A i \in 1..Len(s) : s[i] # sep
    THEN <<s>>
    ELSE LET i == CHOOSE j \in 1..Len(s) :
                      s[j] = sep /\ \A k \in 1..(j - 1) : s[k] # sep
         IN  <<SubSeq(s, 1, i - 1)>> \o Split(SubSeq(s, i + 1, Len(s)), sep)

\* str.isdigit(): at least one character and all of them digits
IsDigit(s) == Len(s) > 0 /\ \A i \in 1..Len(s) : s[i] \in Digits

\* int(s) of a digit string
RECURSIVE IntOf(_)
IntOf(s) ==
    IF Len(s) = 0 THEN 0
    ELSE 10 * IntOf(SubSeq(s, 1, Len(s) - 1)) + DigitVal(s[Len(s)])

\* float(s) accepts, over Chars: digits with at most one ".", at least one digit
IsFloat(s) ==
    /\ \A i \in 1..Len(s) : s[i] \in Digits \cup {"."}
    /\ Cardinality({i \in 1..Len(s) : s[i] = "."}) <= 1
    /\ \E i \in 1..Len(s) : s[i] \in Digits

\* float(s) of a string float() accepts
FloatOf(s) ==
    LET dots  == {i \in 1..Len(s) : s[i] = "."}
        dot   == IF dots = {} THEN Len(s) + 1 ELSE CHOOSE i \in dots : TRUE
        whole == SubSeq(s, 1, dot - 1)
        frac  == SubSeq(s, dot + 1, Len(s))
    IN  Rat(IntOf(whole \o frac), Pow10(Len(frac)))

\* what a call returns: a value, or the exception it raised
Return(v) == [exc |-> "none", val |-> v]
Raise(e)  == [exc |-> e, val |-> None]
NotCalled == [exc |-> "not called", val |-> None]

\* parse_lambda_config without the assertion on the order of the steps
parse_lambda_config_unordered(s) ==
    LET split == Split(s, ",") IN
    IF Len(split) = 1
    THEN IF IsFloat(s) THEN Return(<<FloatOf(s), None>>) ELSE Raise("ValueError")
    ELSE LET sp == [i \in 1..Len(split) |-> Split(split[i], ":")] IN
         IF ~ \A i \in 1..Len(sp) : Len(sp[i]) = 2 THEN Raise("AssertionError")
         ELSE IF ~ \A i \in 1..Len(sp) : IsDigit(sp[i][1]) THEN Raise("AssertionError")
         ELSE IF ~ \A i \in 1..Len(sp) : IsFloat(sp[i][2]) THEN Raise("ValueError")
         ELSE Return(<<FloatOf(sp[1][2]),
                       [i \in 1..Len(sp) |-> <<IntOf(sp[i][1]), FloatOf(sp[i][2])>>]>>)

\* parse_lambda_config taking the initial value from the last checkpoint
parse_lambda_config_last(s) ==
    LET split == Split(s, ",") IN
    IF Len(split) = 1
    THEN IF IsFloat(s) THEN Return(<<FloatOf(s), None>>) ELSE Raise("ValueError")
    ELSE LET sp == [i \in 1..Len(split) |-> Split(split[i], ":")] IN
         IF ~ \A i \in 1..Len(sp) : Len(sp[i]) = 2 THEN Raise("AssertionError")
         ELSE IF ~ \A i \in 1..Len(sp) : IsDigit(sp[i][1]) THEN Raise("AssertionError")
         ELSE IF ~ \A i \in 1..(Len(sp) - 1) : IntOf(sp[i][1]) < IntOf(sp[i + 1][1])
              THEN Raise("AssertionError")
         ELSE IF ~ \A i \in 1..Len(sp) : IsFloat(sp[i][2]) THEN Raise("ValueError")
         ELSE Return(<<FloatOf(sp[Len(sp)][2]),
                       [i \in 1..Len(sp) |-> <<IntOf(sp[i][1]), FloatOf(sp[i][2])>>]>>)

\* parse_lambda_config(x): (initial value, schedule or None)
parse_lambda_config(s) ==
    LET split == Split(s, ",") IN
    IF Len(split) = 1
    THEN IF IsFloat(s) THEN Return(<<FloatOf(s), None>>) ELSE Raise("ValueError")
    ELSE LET sp == [i \in 1..Len(split) |-> Split(split[i], ":")] IN
         IF ~ \A i \in 1..Len(sp) : Len(sp[i]) = 2 THEN Raise("AssertionError")
         ELSE IF ~ \A i \in 1..Len(sp) : IsDigit(sp[i][1]) THEN Raise("AssertionError")
         ELSE IF ~ \A i \in 1..(Len(sp) - 1) : IntOf(sp[i][1]) < IntOf(sp[i + 1][1])
              THEN Raise("AssertionError")
         ELSE IF ~ \A i \in 1..Len(sp) : IsFloat(sp[i][2]) THEN Raise("ValueError")
         ELSE Return(<<FloatOf(sp[1][2]),
                       [i \in 1..Len(sp) |-> <<IntOf(sp[i][1]), FloatOf(sp[i][2])>>]>>)

---------------------------------------------------------------------------
(* BtTranslationTask: the lambda schedules.                                *)

\* no train_step call is on record
NoStepRecord ==
    /\ sample = None /\ valid_sample = None /\ ignore_grad = FALSE
    /\ ret = None /\ calls = <<>>

\* lambda_step_func holding the value of the checkpoint reached until the
\* next checkpoint (no interpolation)
lambda_step_func_held(config, n_iter) ==
    LET n      == Len(config)
        ranges == {i \in 1..(n - 1) :
                       config[i][1] <= n_iter /\ n_iter < config[i + 1][1]}
    IN  IF ranges = {}
        THEN IF n_iter >= config[n][1]
             THEN Return(config[n][2])
             ELSE Raise("AssertionError")
        ELSE IF Cardinality(ranges) # 1
             THEN Raise("AssertionError")
             ELSE Return(config[CHOOSE j \in ranges : TRUE][2])

\* lambda_step_func going on along the last segment past the last checkpoint
lambda_step_func_extrapolated(config, n_iter) ==
    LET n      == Len(config)
        ranges == {i \in 1..(n - 1) :
                       config[i][1] <= n_iter /\ n_iter < config[i + 1][1]}
        i      == IF ranges = {} THEN n - 1 ELSE CHOOSE j \in ranges : TRUE
        x_a    == config[i][1]
        y_a    == config[i][2]
        x_b    == config[i + 1][1]
        y_b    == config[i + 1][2]
    IN  IF ranges = {} /\ n_iter < config[n][1]
        THEN Raise("AssertionError")
        ELSE IF Cardinality(ranges) > 1
             THEN Raise("AssertionError")
             ELSE Return(RatAdd(y_a,
                                RatDiv(RatMul(RatInt(n_iter - x_a), RatSub(y_b, y_a)),
                                       RatInt(x_b - x_a))))

\* lambda_step_func giving the first checkpoint's value before the first
\* checkpoint
lambda_step_func_initial(config, n_iter) ==
    LET n      == Len(config)
        ranges == {i \in 1..(n - 1) :
                       config[i][1] <= n_iter /\ n_iter < config[i + 1][1]}
    IN  IF ranges = {}
        THEN IF n_iter >= config[n][1]
             THEN Return(config[n][2])
             ELSE Return(config[1][2])
        ELSE IF Cardinality(ranges) # 1
             THEN Raise("AssertionError")
             ELSE LET i   == CHOOSE j \in ranges : TRUE
                      x_a == config[i][1]
                      y_a == config[i][2]
                      x_b == config[i + 1][1]
                      y_b == config[i + 1][2]
                  IN  Return(RatAdd(y_a,
                                    RatDiv(RatMul(RatInt(n_iter - x_a), RatSub(y_b, y_a)),
                                           RatInt(x_b - x_a))))

\* lambda_step_func(config, n_iter) of update_step
lambda_step_func(config, n_iter) ==
    LET n      == Len(config)
        ranges == {i \in 1..(n - 1) :
                       config[i][1] <= n_iter /\ n_iter < config[i + 1][1]}
    IN  IF ranges = {}
        THEN IF n_iter >= config[n][1]
             THEN Return(config[n][2])
             ELSE Raise("AssertionError")
        ELSE IF Cardinality(ranges) # 1
             THEN Raise("AssertionError")
             ELSE LET i   == CHOOSE j \in ranges : TRUE
                      x_a == config[i][1]
                      y_a == config[i][2]
                      x_b == config[i + 1][1]
                      y_b == config[i + 1][2]
                  IN  Return(RatAdd(y_a,
                                    RatDiv(RatMul(RatInt(n_iter - x_a), RatSub(y_b, y_a)),
                                           RatInt(x_b - x_a))))

\* the step of update_step resetting a lambda that has no schedule
StepLambda_reset(value, steps, n_iter) ==
    IF steps # None THEN lambda_step_func(steps, n_iter) ELSE Return(RatInt(0))

\* one "if self.<lambda>_steps is not None: self.<lambda> = ..." of update_step
StepLambda(value, steps, n_iter) ==
    IF steps # None THEN lambda_step_func(steps, n_iter) ELSE Return(value)

\* BtTranslationTask.__init__: the three configurations are parsed in order
Construct ==
    /\ op = "none"
    /\ LET par == parse_lambda_config(args.lambda_parallel_config)
           otf == parse_lambda_config(args.lambda_otf_bt_config)
           den == parse_lambda_config(args.lambda_denoising_config)
           e   == IF par.exc # "none" THEN par.exc
                  ELSE IF otf.exc # "none" THEN otf.exc
                  ELSE den.exc
       IN  /\ exc' = e
           /\ IF e = "none"
              THEN /\ lang_pairs' = IF args.training
                                    THEN args.lang_pairs
                                    ELSE <<(<<args.source_lang, args.target_lang>>)>>
                   /\ lambda_parallel' = par.val[1]
                   /\ lambda_parallel_steps' = par.val[2]
                   /\ lambda_otf_bt' = otf.val[1]
                   /\ lambda_otf_bt_steps' = otf.val[2]
                   /\ lambda_denoising' = den.val[1]
                   /\ lambda_denoising_steps' = den.val[2]
              ELSE UNCHANGED <<lang_pairs, lambdas>>
    /\ op' = "__init__"
    /\ baseline' = None
    /\ task' = "BtTranslationTask"
    /\ model_lang_pairs' = lang_pairs'
    /\ UNCHANGED <<parse_vars, args, params, num_updates, step_vars,
                   sequence_generators, backtranslators, data_optimizer, built_model,
                   model_args, message, setup_vars>>

\* a task exists and no call on it has raised (an exception ends the run)
Constructed == op # "none" /\ exc = "none"

\* BtTranslationTask.update_step(num_updates); an assertion of an earlier
\* schedule leaves the later lambdas as they were
update_step(n) ==
    LET par == StepLambda(lambda_parallel, lambda_parallel_steps, n)
        otf == StepLambda(lambda_otf_bt, lambda_otf_bt_steps, n)
        den == StepLambda(lambda_denoising, lambda_denoising_steps, n)
    IN  /\ lambda_parallel' = IF par.exc = "none" THEN par.val ELSE lambda_parallel
        /\ lambda_otf_bt' = IF par.exc = "none" /\ otf.exc = "none"
                            THEN otf.val ELSE lambda_otf_bt
        /\ lambda_denoising' = IF par.exc = "none" /\ otf.exc = "none" /\ den.exc = "none"
                               THEN den.val ELSE lambda_denoising
        /\ exc' = IF par.exc # "none" THEN par.exc
                  ELSE IF otf.exc # "none" THEN otf.exc
                  ELSE den.exc
        /\ num_updates' = n
        /\ op' = "update_step"
        /\ sample' = None /\ valid_sample' = None /\ ignore_grad' = FALSE
        /\ ret' = None /\ calls' = <<>>
        /\ UNCHANGED <<parse_vars, args, lang_pairs, lambda_parallel_steps,
                       lambda_otf_bt_steps, lambda_denoising_steps, baseline, params,
                       build_vars, setup_vars>>

UpdateStep(counts) ==
    /\ Constructed
    /\ \E n \in counts : update_step(n)

---------------------------------------------------------------------------
(* BtTranslationTask.train_step.                                           *)
(*                                                                         *)
(* A language pair "src-tgt" is the tuple <<src, tgt>>, the batch key      *)
(* "bt:src-tgt" the tuple <<"bt:", src, tgt>>.  A batch (the `sample`      *)
(* dict) is a function on its possible keys; an entry of kind "absent"     *)
(* says that the key is not in the dict.                                   *)

Zero == RatInt(0)

PyVal(kind, len, loss, size, items) ==
    [kind |-> kind, len |-> len, loss |-> loss, sample_size |-> size,
     reward |-> Zero, items |-> items]

Absent     == PyVal("absent", 0, Zero, 0, <<>>)
PyNone     == PyVal("None", 0, Zero, 0, <<>>)
EmptyBatch == PyVal("dict", 0, Zero, 0, <<>>)
\* a non-empty batch, with the loss and sample size the criterion finds on it
Batch(loss, size) == PyVal("dict", 5, loss, size, <<>>)
PyTuple(items) == PyVal("tuple", Len(items), Zero, 0, items)

\* _get_bt_dataset_key(lang_pair)
_get_bt_dataset_key(lang_pair) == <<"bt:", lang_pair[1], lang_pair[2]>>

\* _get_dds_bt_key(lang_pair)
_get_dds_bt_key(lang_pair) == <<lang_pair[2], lang_pair[1]>>

NoKey == <<>>
Event(fn, model, key, loss) == [fn |-> fn, model |-> model, key |-> key, loss |-> loss]

\* d[k] = v on a dict
SetItem(d, k, v) == [j \in (DOMAIN d) \cup {k} |-> IF j = k THEN v ELSE d[j]]

\* the running state of one train_step call
StartStep(b, p) ==
    [exc |-> "none", agg_loss |-> Zero, agg_sample_size |-> 0,
     agg_logging_output |-> <<>>, calls |-> <<Event("model.train", NoKey, NoKey, Zero)>>,
     baseline |-> b, params |-> p, fb |-> "None"]

\* the element of a one-element set
Only(S) == CHOOSE r \in S : TRUE

\* the state the call is in after a statement: an exception that has ended
\* the call leaves the state v as it is, otherwise the statement gives after
Unless(v, after) == IF v.exc # "none" THEN v ELSE after

\* a collaborator call that returns
Call(st, fn, model, key, loss) ==
    Only({Unless(v, [v EXCEPT !.calls = Append(@, Event(fn, model, key, loss))])
    : v \in {st}})

\* an exception ends the call (e = "none": no exception)
Throw(st, e) == Only({Unless(v, [v EXCEPT !.exc = e]) : v \in {st}})

\* the exception of criterion(model, samples) on something that is no batch
CriterionExc(samples) ==
    IF samples.kind = "dict" /\ samples.len > 0 THEN "none"
    ELSE IF samples.kind = "dict" THEN "KeyError"
    ELSE "TypeError"

\* criterion(model, samples, ...): the external loss function
criterion(st, model, samples, key) ==
    Throw(Call(st, "criterion", model, key, samples.loss),
          CriterionExc(samples))

\* the exception of d[k] on the batch dict
KeyExc(d, k) == IF d[k].kind = "absent" THEN "KeyError" ELSE "none"

\* the exception of v[i] (i is 0 or 1)
IndexExc(v, i) ==
    IF v.kind = "None" THEN "TypeError"
    ELSE IF v.kind = "dict" THEN "KeyError"
    ELSE IF Len(v.items) <= i THEN "IndexError"
    ELSE "none"

\* the loss forward_backward back-propagates (lines 325-328)
ScaledLoss(loss, weight, ig) ==
    IF ig THEN RatMul(loss, Zero) ELSE RatMul(loss, weight)

\* forward_backward(model, samples, logging_output_key, weight) of train_step
forward_backward(st, model, samples, logging_output_key, weight, ig) ==
    Only({Unless(v,
        IF samples.kind = "None" \/ samples.len = 0
        THEN [v EXCEPT !.fb = "None"]
        ELSE Only({Unless(b,
                      [b EXCEPT !.agg_loss =
                                    RatAdd(@, ScaledLoss(samples.loss, weight, ig)),
                                !.agg_sample_size = @ + samples.sample_size,
                                !.agg_logging_output =
                                    SetItem(@, logging_output_key,
                                            [loss |-> samples.loss,
                                             sample_size |-> samples.sample_size]),
                                !.fb = "tuple"])
                   : b \in {Call(criterion(v, model, samples, logging_output_key),
                                 "optimizer.backward", model, logging_output_key,
                                 ScaledLoss(samples.loss, weight, ig))}}))
          : v \in {st}})

\* the first loop of train_step, from the i-th pair on (lines 339-361)
RECURSIVE ParallelPass(_, _, _, _, _, _)
ParallelPass(st, pairs, i, smp, weight, ig) ==
    IF i > Len(pairs) THEN st
    ELSE Only({Unless(v,
             ParallelPass(
                 Only({Unless(w,
                     forward_backward(w, pairs[i], smp[pairs[i]], pairs[i], weight, ig))
                       : w \in {Throw(v, KeyExc(smp, pairs[i]))}}),
                 pairs, i + 1, smp, weight, ig))
               : v \in {st}})

ValidKey(lang_pair) == <<"valid", lang_pair[1], lang_pair[2]>>

\* the bt_dds block of the second loop (lines 386-402)
DdsReward(st, lang_pair, smp, dev) ==
    LET sample_key == _get_bt_dataset_key(lang_pair)
        s1 == Call(st, "optimizer.clone_param", NoKey, NoKey, Zero)
        s2 == Call(s1, "optimizer.save_cur_train_grad", NoKey, NoKey, Zero)
        s3 == Throw(s2, KeyExc(dev, lang_pair))
        s4 == Only({Unless(v,
                  criterion(v, lang_pair, dev[lang_pair], ValidKey(lang_pair)))
                  : v \in {s3}})
        s5 == Call(s4, "optimizer.backward", lang_pair, ValidKey(lang_pair),
                   dev[lang_pair].loss)
        s6 == Call(s5, "optimizer.save_new_grad", NoKey, NoKey, Zero)
        s7 == Call(s6, "optimizer.add_new_grad", NoKey, NoKey, Zero)
        s8 == Only({Unless(v, [v EXCEPT !.params = "perturbed"]) : v \in {s7}})
        s9 == Only({Unless(v,
                  Throw(v, IndexExc(smp[sample_key], 0)))
                  : v \in {Throw(s8, KeyExc(smp, sample_key))}})
        s10 == Only({Unless(v,
                   criterion(v, lang_pair, smp[sample_key].items[1], sample_key))
                   : v \in {s9}})
        s11 == Call(s10, "optimizer.switch_param", NoKey, NoKey, Zero)
        s12 == Only({Unless(v, [v EXCEPT !.params = "orig"]) : v \in {s11}})
    IN  Call(s12, "optimizer.reset_cur_train_grad", NoKey, NoKey, Zero)

\* self.baseline after the data-actor update (lines 414-418)
NextBaseline(b, mean) ==
    IF b = None THEN Zero
    ELSE RatSub(b, RatMul(Rat(1, 1000), RatSub(b, mean)))

\* the data-actor update of the second loop (lines 408-429)
DataActorUpdate(st, lang_pair, smp, lam_denoising) ==
    LET sample_key   == _get_bt_dataset_key(lang_pair)
        bt_lang_pair == _get_dds_bt_key(lang_pair)
        s1 == Only({Unless(v,
                  [v EXCEPT !.baseline =
                       NextBaseline(@, smp[sample_key].items[1].reward)])
                       : v \in {st}})
        s2 == Throw(s1, IndexExc(smp[sample_key], 1))
        s3 == Only({Unless(v,
                  criterion(v, bt_lang_pair, smp[sample_key].items[2], sample_key))
                  : v \in {s2}})
        s4 == Only({Unless(v,
                  Call(v, "loss.backward", bt_lang_pair, sample_key,
                       RatMul(smp[sample_key].items[2].loss, lam_denoising)))
                       : v \in {s3}})
        s5 == Call(s4, "data_optimizer.step", NoKey, NoKey, Zero)
        s6 == Call(s5, "data_optimizer.zero_grad", NoKey, NoKey, Zero)
    IN  Only({Unless(v,
            [v EXCEPT !.agg_logging_output =
                 SetItem(@, bt_lang_pair,
                         [loss |-> smp[sample_key].items[2].loss,
                          sample_size |-> smp[sample_key].items[2].sample_size])])
                          : v \in {s6}})

\* one turn of the second loop computing the back-translation loss with the
\* reverse sub-model
BtTurn_reverse(st, lang_pair, smp, dev, weight, ig, bt_dds, lam_denoising) ==
    LET sample_key == _get_bt_dataset_key(lang_pair)
        s1 == IF bt_dds THEN DdsReward(st, lang_pair, smp, dev) ELSE st
        s2 == Only({Unless(v,
                  Throw(v, IndexExc(smp[sample_key], 0)))
                  : v \in {Throw(s1, KeyExc(smp, sample_key))}})
        s3 == Only({Unless(v,
                  forward_backward(v, _get_dds_bt_key(lang_pair), smp[sample_key].items[1],
                                   sample_key, weight, ig))
                                   : v \in {s2}})
        \* "nll_loss_data, dev_grad_dotprod = None" cannot be unpacked
        s4 == Only({Unless(v,
                  IF v.fb = "None" THEN Throw(v, "TypeError") ELSE v)
                  : v \in {s3}})
    IN  IF bt_dds /\ RatLt(Zero, lam_denoising)
        THEN DataActorUpdate(s4, lang_pair, smp, lam_denoising)
        ELSE s4

\* one turn of the second loop of train_step (lines 384-429)
BtTurn(st, lang_pair, smp, dev, weight, ig, bt_dds, lam_denoising) ==
    LET sample_key == _get_bt_dataset_key(lang_pair)
        s1 == IF bt_dds THEN DdsReward(st, lang_pair, smp, dev) ELSE st
        s2 == Only({Unless(v,
                  Throw(v, IndexExc(smp[sample_key], 0)))
                  : v \in {Throw(s1, KeyExc(smp, sample_key))}})
        s3 == Only({Unless(v,
                  forward_backward(v, lang_pair, smp[sample_key].items[1],
                                   sample_key, weight, ig))
                                   : v \in {s2}})
        \* "nll_loss_data, dev_grad_dotprod = None" cannot be unpacked
        s4 == Only({Unless(v,
                  IF v.fb = "None" THEN Throw(v, "TypeError") ELSE v)
                  : v \in {s3}})
    IN  IF bt_dds /\ RatLt(Zero, lam_denoising)
        THEN DataActorUpdate(s4, lang_pair, smp, lam_denoising)
        ELSE s4

\* the second loop of train_step, from the i-th pair on (lines 383-429)
RECURSIVE BtPass(_, _, _, _, _, _, _, _, _)
BtPass(st, pairs, i, smp, dev, weight, ig, bt_dds, lam_denoising) ==
    IF i > Len(pairs) THEN st
    ELSE Only({Unless(v,
             BtPass(BtTurn(v, pairs[i], smp, dev, weight, ig, bt_dds, lam_denoising),
                    pairs, i + 1, smp, dev, weight, ig, bt_dds, lam_denoising))
                    : v \in {st}})

\* the weight train_step gives the parallel losses (line 337)
ParallelWeight == RatInt(1)

\* the weight train_step gives the back-translation losses (line 338)
OtfBtWeight == RatInt(1)

\* BtTranslationTask.train_step(sample, model, criterion, optimizer, ignore_grad)
train_step(smp, dev, ig) ==
    \E s2 \in {BtPass(ParallelPass(StartStep(baseline, params), lang_pairs, 1, smp,
                                   ParallelWeight, ig),
                      lang_pairs, 1, smp, dev, OtfBtWeight, ig, args.bt_dds,
                      lambda_denoising)} :
        /\ lambda_parallel' = ParallelWeight
        /\ lambda_otf_bt' = OtfBtWeight
        /\ sample' = smp
        /\ valid_sample' = dev
        /\ ignore_grad' = ig
        /\ exc' = s2.exc
        /\ calls' = s2.calls
        /\ ret' = IF s2.exc = "none"
                  THEN [agg_loss |-> s2.agg_loss,
                        agg_sample_size |-> s2.agg_sample_size,
                        agg_logging_output |-> s2.agg_logging_output]
                  ELSE None
        /\ baseline' = s2.baseline
        /\ params' = s2.params
        /\ op' = "train_step"
        /\ num_updates' = 0
        /\ UNCHANGED <<parse_vars, args, lang_pairs, lambda_parallel_steps,
                       lambda_otf_bt_steps, lambda_denoising, lambda_denoising_steps,
                       build_vars, setup_vars>>

---------------------------------------------------------------------------
(* Spec: a BtTranslationTask set up for training, a few schedules, every   *)
(* shape of batch.                                                         *)

LangPairLists ==
    { <<(<<"en", "de">>)>>,
      <<(<<"en", "de">>), (<<"en", "fr">>)>>,
      <<(<<"en", "de">>), (<<"de", "en">>)>> }

\* --lambda-parallel-config: "1.0" (the default), ".5", "0:1,2:0"
ParallelConfigs ==
    { <<"1", ".", "0">>, <<".", "5">>, <<"0", ":", "1", ",", "2", ":", "0">> }

\* --lambda-otf-bt-config: "0.0" (the default), "0:0,100:1"
OtfBtConfigs ==
    { <<"0", ".", "0">>, <<"0", ":", "0", ",", "1", "0", "0", ":", "1">> }

\* --lambda-denoising-config: "0.0" (the default), "1"
DenoisingConfigs == { <<"0", ".", "0">>, <<"1">> }

TaskArgs(par, otf, den, dds, lists) ==
    [lambda_parallel_config : par, lambda_otf_bt_config : otf,
     lambda_denoising_config : den, bt_dds : dds, lang_pairs : lists,
     training : {TRUE}, source_lang : {None}, target_lang : {None}]

\* no model has been constructed
NoModel == [kind |-> "none", models |-> {}]

\* aggregate_logging_outputs was not called
NoLogRecord == aggregate_call = None /\ flat_logging_output = None

\* nothing was prepared, altered or loaded
NoSetupRecord ==
    /\ dict_files = <<>> /\ prepared = NotCalled
    /\ alter_call = None /\ altered = None
    /\ data_files = {} /\ datasets = <<>>
    /\ backtranslate_datasets = <<>> /\ load_split = "none"
    /\ NoLogRecord

\* the state before BtTranslationTask.__init__
NotConstructed ==
    /\ NoSetupRecord
    /\ x = <<>> /\ parsed = NotCalled
    /\ lang_pairs = None /\ baseline = None
    /\ lambda_parallel = None /\ lambda_parallel_steps = None
    /\ lambda_otf_bt = None /\ lambda_otf_bt_steps = None
    /\ lambda_denoising = None /\ lambda_denoising_steps = None
    /\ params = "orig" /\ op = "none" /\ exc = "none" /\ num_updates = 0
    /\ NoStepRecord
    /\ task = "none" /\ model_lang_pairs = None
    /\ sequence_generators = <<>> /\ backtranslators = <<>> /\ data_optimizer = <<>>
    /\ built_model = NoModel /\ model_args = None /\ message = <<>>

Init ==
    /\ args \in TaskArgs(ParallelConfigs, OtfBtConfigs, DenoisingConfigs, BOOLEAN,
                         LangPairLists)
    /\ NotConstructed

\* what sample[lang_pair] can be instead of a batch
ParallelOdd == {Absent, PyNone, EmptyBatch}

\* what sample["bt:" + lang_pair] can be instead of a pair of batches
BtOdd(second) ==
    {Absent, PyNone, PyTuple(<<>>), PyTuple(<<PyNone, second>>),
     PyTuple(<<EmptyBatch, second>>)}

PairSet(pairs) == {pairs[i] : i \in 1..Len(pairs)}
BtKeySet(pairs) == {_get_bt_dataset_key(pairs[i]) : i \in 1..Len(pairs)}
KeySet(pairs) == PairSet(pairs) \cup BtKeySet(pairs)

\* the batches of the i-th pair: losses and sizes are distinct powers of two,
\* so that a sum tells which batches went into it
ParallelBatch(i) == Batch(RatInt(2 ^ (i - 1)), 2 ^ (i - 1))
BtBatch(i)       == Batch(RatInt(4 * 2 ^ (i - 1)), 4 * 2 ^ (i - 1))
SecondBatch(i)   == Batch(RatInt(16 * 2 ^ (i - 1)), 16 * 2 ^ (i - 1))
ValidBatch(i)    == Batch(RatInt(64 * 2 ^ (i - 1)), 64 * 2 ^ (i - 1))

IndexOf(pairs, p) == CHOOSE i \in 1..Len(pairs) : pairs[i] = p

\* the batch in which every configured pair has its data
FullSample(pairs) ==
    [k \in KeySet(pairs) |->
        IF k \in PairSet(pairs)
        THEN ParallelBatch(IndexOf(pairs, k))
        ELSE LET i == IndexOf(pairs, <<k[2], k[3]>>)
             IN  PyTuple(<<BtBatch(i), SecondBatch(i)>>)]

\* what the entry of key k can be instead of its data
OddEntries(pairs, k) ==
    IF k \in PairSet(pairs) THEN ParallelOdd
    ELSE BtOdd(SecondBatch(IndexOf(pairs, <<k[2], k[3]>>)))

\* the batches in which at most n entries are not the pair's data
Samples(pairs, n) ==
    UNION { { [k \in KeySet(pairs) |->
                  IF k \in K THEN odd[k] ELSE FullSample(pairs)[k]] :
              odd \in {f \in [K -> ParallelOdd \cup BtOdd(SecondBatch(1))
                                     \cup BtOdd(SecondBatch(2))] :
                          \A k \in K : f[k] \in OddEntries(pairs, k)} } :
            K \in {K \in SUBSET KeySet(pairs) : Cardinality(K) <= n} }

\* the held-out batches: every pair present
ValidSamples(pairs) == { [p \in PairSet(pairs) |-> ValidBatch(IndexOf(pairs, p))] }

TrainStep ==
    /\ Constructed
    /\ \E smp \in Samples(lang_pairs, MaxOdd),
          dev \in ValidSamples(lang_pairs), ig \in BOOLEAN :
           train_step(smp, dev, ig)

\* the step counts the trainer hands to update_step: the first few, 50, 100
UpdateArgs == (0..MaxUpdates) \cup {50, 100}

Next == Construct \/ UpdateStep(UpdateArgs) \/ TrainStep

Spec == Init /\ [][Next]_vars

---------------------------------------------------------------------------
(* SpecSched: the same task, with every schedule of two or three           *)
(* checkpoints over the steps 0..MaxStep for one of the three lambdas, and *)
(* batches in which every pair is present.                                 *)

DigitChar(d) ==
    CASE d = 0 -> "0" [] d = 1 -> "1" [] d = 2 -> "2" [] d = 3 -> "3"
      [] d = 4 -> "4" [] d = 5 -> "5" [] d = 6 -> "6" [] d = 7 -> "7"
      [] d = 8 -> "8" [] d = 9 -> "9"

\* str(n), used to write the schedules down
RECURSIVE StrOfInt(_)
StrOfInt(n) ==
    IF n < 10 THEN <<DigitChar(n)>> ELSE Append(StrOfInt(n \div 10), DigitChar(n % 10))

ValueTokens == { <<"0">>, <<"1">>, <<".", "5">> }

RECURSIVE JoinPairs(_, _, _)
JoinPairs(ks, vs, i) ==
    LET pair == StrOfInt(ks[i]) \o <<":">> \o vs[i]
    IN  IF i = Len(ks) THEN pair ELSE pair \o <<",">> \o JoinPairs(ks, vs, i + 1)

\* the schedule strings of m checkpoints with strictly increasing steps
Schedules(m) ==
    {JoinPairs(ks, vs, 1) :
        ks \in {f \in [1..m -> 0..MaxStep] : \A i \in 1..(m - 1) : f[i] < f[i + 1]},
        vs \in [1..m -> ValueTokens]}

\* "0:1,1000:0", the example of parse_lambda_config's docstring
DocConfig == <<"0", ":", "1", ",", "1", "0", "0", "0", ":", "0">>

\* constants, schedules, and "1,0", which __init__ rejects
RichConfigs ==
    { <<"1", ".", "0">>, <<"0">>, <<"1", ",", "0">>, DocConfig }
        \cup Schedules(2) \cup Schedules(3)

\* ".5", "1:1,3:0"
FewConfigs == { <<".", "5">>, <<"1", ":", "1", ",", "3", ":", "0">> }

SchedLists == { <<(<<"en", "de">>), (<<"en", "fr">>)>> }

InitSched ==
    /\ args \in TaskArgs(RichConfigs, FewConfigs, FewConfigs, {FALSE}, SchedLists)
                \cup TaskArgs(FewConfigs, RichConfigs, FewConfigs, {FALSE}, SchedLists)
                \cup TaskArgs(FewConfigs, FewConfigs, RichConfigs, {FALSE}, SchedLists)
    /\ NotConstructed

TrainStepFull ==
    /\ Constructed
    /\ \E smp \in Samples(lang_pairs, 0),
          dev \in ValidSamples(lang_pairs), ig \in BOOLEAN :
           train_step(smp, dev, ig)

\* the step counts handed to update_step: the first few, and some within
\* and past DocConfig
SchedArgs == (0..MaxUpdates) \cup {500, 1000, 5000}

NextSched == Construct \/ UpdateStep(SchedArgs) \/ TrainStepFull

SpecSched == InitSched /\ [][NextSched]_vars

---------------------------------------------------------------------------
(* SpecParse: parse_lambda_config applied to every string over Chars of    *)
(* at most MaxLen characters.                                              *)

\* the strings of k characters over Chars
Strings(k) == [1..k -> Chars]

\* no task exists in SpecParse
InitParse ==
    /\ args = None
    /\ NotConstructed

Parse ==
    /\ parsed = NotCalled
    /\ \E k \in 0..MaxLen : \E s \in Strings(k) :
        /\ x' = s
        /\ parsed' = parse_lambda_config(s)
    /\ UNCHANGED task_vars

NextParse == Parse

SpecParse == InitParse /\ [][NextParse]_vars

---------------------------------------------------------------------------
(* MultilingualTranslationTask: __init__ and train_step.                   *)

\* MultilingualTranslationTask.__init__
MultilingualTranslationTask_init ==
    /\ op = "none"
    /\ lang_pairs' = IF args.training
                     THEN args.lang_pairs
                     ELSE <<(<<args.source_lang, args.target_lang>>)>>
    /\ model_lang_pairs' = lang_pairs'
    /\ task' = "MultilingualTranslationTask"
    /\ op' = "__init__"
    /\ exc' = "none"
    /\ UNCHANGED <<parse_vars, args, lambdas, baseline, params, num_updates, step_vars,
                   sequence_generators, backtranslators, data_optimizer, built_model,
                   model_args, message, setup_vars>>

\* "lang_pair not in sample or sample[lang_pair] is None or
\*  len(sample[lang_pair]) == 0" without the test for None
Skipped_unless_none(smp, lang_pair) ==
    \/ smp[lang_pair].kind = "absent"
    \/ (smp[lang_pair].kind # "None" /\ smp[lang_pair].len = 0)

\* "lang_pair not in sample or sample[lang_pair] is None or
\*  len(sample[lang_pair]) == 0"
Skipped(smp, lang_pair) ==
    \/ smp[lang_pair].kind = "absent"
    \/ smp[lang_pair].kind = "None"
    \/ smp[lang_pair].len = 0

\* the data_actor branch: the scores of the pairs in the batch
RECURSIVE DataScorePass(_, _, _, _)
DataScorePass(st, pairs, i, smp) ==
    IF i > Len(pairs) THEN st
    ELSE Only({Unless(v,
             DataScorePass(
                 IF Skipped(smp, pairs[i]) THEN v
                 ELSE Call(Call(v, "data_actor", NoKey, pairs[i], Zero),
                           "data_actor_out.__setitem__", NoKey, pairs[i], Zero),
                 pairs, i + 1, smp)) : v \in {st}})

\* loss after "if ignore_grad: loss *= 0"
DetachedLoss(loss, ig) == IF ig THEN RatMul(loss, Zero) ELSE loss

\* one turn of the main loop of MultilingualTranslationTask.train_step
MultiTurn(st, lang_pair, smp, ig, copy) ==
    IF Skipped(smp, lang_pair) THEN st
    ELSE LET s1 == criterion(st, lang_pair, smp[lang_pair], lang_pair)
             s2 == IF copy
                   THEN Call(s1, "loss_copy.__setitem__", NoKey, lang_pair, Zero)
                   ELSE s1
             s3 == IF ig THEN s2
                   ELSE Call(s2, "optimizer.backward", lang_pair, lang_pair,
                             smp[lang_pair].loss)
         IN  Only({Unless(v,
                 [v EXCEPT !.agg_loss = RatAdd(@, DetachedLoss(smp[lang_pair].loss, ig)),
                           !.agg_sample_size = @ + smp[lang_pair].sample_size,
                           !.agg_logging_output =
                               SetItem(@, lang_pair,
                                       [loss |-> smp[lang_pair].loss,
                                        sample_size |-> smp[lang_pair].sample_size])])
                                        : v \in {s3}})

\* the main loop of MultilingualTranslationTask.train_step, from the i-th pair on
RECURSIVE MultiPass(_, _, _, _, _, _)
MultiPass(st, pairs, i, smp, ig, copy) ==
    IF i > Len(pairs) THEN st
    ELSE Only({Unless(v,
             MultiPass(MultiTurn(v, pairs[i], smp, ig, copy), pairs, i + 1, smp, ig, copy))
             : v \in {st}})

\* MultilingualTranslationTask.train_step(sample, model, criterion, optimizer,
\* ignore_grad, data_actor, loss_copy, data_actor_out); actor and copy say
\* whether data_actor and loss_copy are given
MultilingualTranslationTask_train_step(smp, ig, actor, copy) ==
    \E s2 \in {MultiPass(
                   IF (args.data_actor = "ave_emb" \/ args.extra_data_actor = "ave_emb")
                      /\ actor
                   THEN DataScorePass(StartStep(baseline, params), model_lang_pairs, 1, smp)
                   ELSE StartStep(baseline, params),
                   model_lang_pairs, 1, smp, ig, copy)} :
        /\ sample' = smp
        /\ valid_sample' = None
        /\ ignore_grad' = ig
        /\ exc' = s2.exc
        /\ calls' = s2.calls
        /\ ret' = IF s2.exc = "none"
                  THEN [agg_loss |-> s2.agg_loss,
                        agg_sample_size |-> s2.agg_sample_size,
                        agg_logging_output |-> s2.agg_logging_output]
                  ELSE None
        /\ op' = "train_step"
        /\ num_updates' = 0
        /\ UNCHANGED <<parse_vars, args, lang_pairs, lambdas, baseline, params,
                       build_vars, setup_vars>>

\* self.eval_lang_pairs = args.eval_lang_pairs, which prepare makes
\* args.lang_pairs itself when --eval-lang-pairs is not given
eval_lang_pairs ==
    IF args.eval_lang_pairs = None THEN args.lang_pairs ELSE args.eval_lang_pairs

\* the exception of model.models[lang_pair]: the model has the sub-models of
\* model_lang_pairs
ModelExc(lang_pair) ==
    IF lang_pair \in {model_lang_pairs[i] : i \in 1..Len(model_lang_pairs)}
    THEN "none" ELSE "KeyError"

\* one turn of the loop of valid_step that also back-propagates the loss
ValidTurn_backward(st, lang_pair, smp) ==
    IF Skipped(smp, lang_pair) THEN st
    ELSE Only({Unless(v,
                  [v EXCEPT !.agg_loss = RatAdd(@, smp[lang_pair].loss),
                            !.agg_sample_size = @ + smp[lang_pair].sample_size,
                            !.agg_logging_output =
                                SetItem(@, lang_pair,
                                        [loss |-> smp[lang_pair].loss,
                                         sample_size |-> smp[lang_pair].sample_size])])
               : v \in {Call(criterion(Throw(st, ModelExc(lang_pair)), lang_pair,
                                       smp[lang_pair], lang_pair),
                             "optimizer.backward", lang_pair, lang_pair,
                             smp[lang_pair].loss)}})

\* one turn of the loop of MultilingualTranslationTask.valid_step
ValidTurn(st, lang_pair, smp) ==
    IF Skipped(smp, lang_pair) THEN st
    ELSE Only({Unless(v,
                  [v EXCEPT !.agg_loss = RatAdd(@, smp[lang_pair].loss),
                            !.agg_sample_size = @ + smp[lang_pair].sample_size,
                            !.agg_logging_output =
                                SetItem(@, lang_pair,
                                        [loss |-> smp[lang_pair].loss,
                                         sample_size |-> smp[lang_pair].sample_size])])
               : v \in {criterion(Throw(st, ModelExc(lang_pair)), lang_pair,
                                  smp[lang_pair], lang_pair)}})

\* the loop of MultilingualTranslationTask.valid_step, from the i-th pair on
RECURSIVE ValidPass(_, _, _, _)
ValidPass(st, pairs, i, smp) ==
    IF i > Len(pairs) THEN st
    ELSE Only({Unless(v, ValidPass(ValidTurn(v, pairs[i], smp), pairs, i + 1, smp))
               : v \in {st}})

\* MultilingualTranslationTask.valid_step(sample, model, criterion)
MultilingualTranslationTask_valid_step(smp) ==
    \E s2 \in {ValidPass([StartStep(baseline, params) EXCEPT
                              !.calls = <<Event("model.eval", NoKey, NoKey, Zero)>>],
                         eval_lang_pairs, 1, smp)} :
        /\ sample' = smp
        /\ valid_sample' = None
        /\ ignore_grad' = FALSE
        /\ exc' = s2.exc
        /\ calls' = s2.calls
        /\ ret' = IF s2.exc = "none"
                  THEN [agg_loss |-> s2.agg_loss,
                        agg_sample_size |-> s2.agg_sample_size,
                        agg_logging_output |-> s2.agg_logging_output]
                  ELSE None
        /\ op' = "valid_step"
        /\ num_updates' = 0
        /\ UNCHANGED <<parse_vars, args, lang_pairs, lambdas, baseline, params,
                       build_vars, setup_vars>>

---------------------------------------------------------------------------
(* SpecMulti: a MultilingualTranslationTask and every batch over three     *)
(* language pairs.                                                         *)

\* the pairs a batch can have entries for
AllPairs == << <<"en", "de">>, <<"en", "fr">>, <<"de", "en">> >>

MultiLists ==
    { <<(<<"en", "de">>)>>,
      <<(<<"en", "de">>), (<<"en", "fr">>)>>,
      <<(<<"de", "en">>), (<<"en", "fr">>), (<<"en", "de">>)>> }

\* the options of the task; one task is set up for evaluation (source_lang
\* and target_lang given)
MultiArgs ==
    {a \in [lang_pairs : MultiLists, eval_lang_pairs : {None} \cup MultiLists,
            training : {TRUE}, source_lang : {None}, target_lang : {None},
            data_actor : {"base", "ave_emb"}, extra_data_actor : {"base"}] :
        a.data_actor = "base" \/ a.eval_lang_pairs = None}
    \cup
    [lang_pairs : {<<(<<"en", "de">>), (<<"en", "fr">>)>>},
     eval_lang_pairs : {<<(<<"en", "fr">>)>>}, training : {FALSE},
     source_lang : {"en"}, target_lang : {"fr"}, data_actor : {"base"},
     extra_data_actor : {"ave_emb"}]

InitMulti ==
    /\ args \in MultiArgs
    /\ NotConstructed

\* the batch of pair p: losses and sizes are distinct powers of two
MultiBatch(p) == ParallelBatch(IndexOf(AllPairs, p))

\* every batch: each pair absent, None, empty, or with its data
MultiSamples ==
    {[p \in PairSet(AllPairs) |->
         CASE f[p] = "absent" -> Absent
           [] f[p] = "None"   -> PyNone
           [] f[p] = "empty"  -> EmptyBatch
           [] f[p] = "data"   -> MultiBatch(p)] :
        f \in [PairSet(AllPairs) -> {"absent", "None", "empty", "data"}]}

MultiTrainStep ==
    /\ Constructed
    /\ \E smp \in MultiSamples, ig \in BOOLEAN, actor \in BOOLEAN, copy \in BOOLEAN :
           MultilingualTranslationTask_train_step(smp, ig, actor, copy)

MultiValidStep ==
    /\ Constructed
    /\ \E smp \in MultiSamples : MultilingualTranslationTask_valid_step(smp)

NextMulti == MultilingualTranslationTask_init \/ MultiTrainStep \/ MultiValidStep

SpecMulti == InitMulti /\ [][NextMulti]_vars

---------------------------------------------------------------------------
(* The shape of a schedule string, read off the characters directly        *)
(* (not through Split), for the claims about parse_lambda_config.          *)

SepsOf(s, c) == {i \in 1..Len(s) : s[i] = c}

NItems(s) == Cardinality(SepsOf(s, ",")) + 1

\* position of the k-th comma of s
KthComma(s, k) ==
    CHOOSE i \in SepsOf(s, ",") : Cardinality({j \in SepsOf(s, ",") : j < i}) = k - 1

\* the k-th comma-separated item of s
ItemOf(s, k) ==
    LET lo == IF k = 1 THEN 1 ELSE KthComma(s, k - 1) + 1
        hi == IF k = NItems(s) THEN Len(s) ELSE KthComma(s, k) - 1
    IN  SubSeq(s, lo, hi)

IsPairItem(t) == Cardinality(SepsOf(t, ":")) = 1
ColonOf(t) == CHOOSE i \in SepsOf(t, ":") : TRUE
StepTok(t) == SubSeq(t, 1, ColonOf(t) - 1)
ValTok(t) == SubSeq(t, ColonOf(t) + 1, Len(t))
IsNumericTok(t) == t # <<>> /\ \A i \in 1..Len(t) : t[i] \in Digits

\* a single numeric literal with no comma
IsConstantConfig(s) == SepsOf(s, ",") = {} /\ IsFloat(s)

AllPairItems(s) == \A k \in 1..NItems(s) : IsPairItem(ItemOf(s, k))
AllNumericSteps(s) == \A k \in 1..NItems(s) : IsNumericTok(StepTok(ItemOf(s, k)))
IncreasingSteps(s) ==
    \A k \in 1..(NItems(s) - 1) :
        IntOf(StepTok(ItemOf(s, k))) < IntOf(StepTok(ItemOf(s, k + 1)))

\* malformed: not a constant, and some item is no step:value pair, or some
\* step token is non-numeric, or the steps are not strictly increasing
MalformedConfig(s) ==
    /\ ~ IsConstantConfig(s)
    /\ \/ ~ AllPairItems(s)
       \/ ~ AllNumericSteps(s)
       \/ ~ IncreasingSteps(s)

\* a well-formed list of two or more step:value pairs
WellFormedSchedule(s) ==
    /\ NItems(s) >= 2
    /\ AllPairItems(s)
    /\ AllNumericSteps(s)
    /\ IncreasingSteps(s)
    /\ \A k \in 1..NItems(s) : IsFloat(ValTok(ItemOf(s, k)))

---------------------------------------------------------------------------
(* Claims.                                                                 *)

\* C1: parse_lambda_config never returns a result for a malformed schedule
\* string: when some step token is non-numeric, the steps are not strictly
\* increasing, or some comma-separated item is not exactly one step:value
\* pair, the call ends in an error.
C1_MalformedRaises ==
    parsed # NotCalled =>
        /\ MalformedConfig(x) =>
               (parsed.exc \in {"AssertionError", "ValueError"} /\ parsed.val = None)
        /\ parsed.exc = "none" => (IsConstantConfig(x) \/ WellFormedSchedule(x))

\* "1,0": two items, neither a step:value pair, rejected
C1_Witness ==
    /\ x = <<"1", ",", "0">>
    /\ MalformedConfig(x)
    /\ parsed.exc = "AssertionError"

C3Step(config, steps, steps_after, lam, lam_after) ==
    /\ (op' = "__init__" /\ exc' = "none" /\ IsConstantConfig(config)) =>
           (lam_after = FloatOf(config) /\ steps_after = None)
    /\ (op' = "update_step" /\ steps = None) => lam_after = lam

Brackets(steps, n) ==
    {i \in 1..(Len(steps) - 1) : steps[i][1] <= n /\ n < steps[i + 1][1]}

\* y_i + (n - x_i) * (y_{i+1} - y_i) / (x_{i+1} - x_i)
Interpolated(steps, i, n) ==
    RatAdd(steps[i][2],
           RatDiv(RatMul(RatInt(n - steps[i][1]), RatSub(steps[i + 1][2], steps[i][2])),
                  RatInt(steps[i + 1][1] - steps[i][1])))

Between(v, a, b) == (RatLe(a, v) /\ RatLe(v, b)) \/ (RatLe(b, v) /\ RatLe(v, a))

C4Holds(lam, steps, n) ==
    steps # None =>
        \A i \in Brackets(steps, n) :
            /\ Brackets(steps, n) = {i}
            /\ lam = Interpolated(steps, i, n)
            /\ (n = steps[i][1] => lam = steps[i][2])
            /\ Between(lam, steps[i][2], steps[i + 1][2])

\* C4: after update_step(n_iter) has returned, every lambda whose schedule
\* has checkpoints with x_i <= n_iter < x_{i+1} is
\* y_i + (n_iter - x_i)*(y_{i+1} - y_i)/(x_{i+1} - x_i); there is exactly one
\* such interval, the value is y_i at n_iter = x_i, and it lies between y_i
\* and y_{i+1}.
C4_Interpolates ==
    (op = "update_step" /\ exc = "none") =>
        /\ C4Holds(lambda_parallel, lambda_parallel_steps, num_updates)
        /\ C4Holds(lambda_otf_bt, lambda_otf_bt_steps, num_updates)
        /\ C4Holds(lambda_denoising, lambda_denoising_steps, num_updates)

\* [(0, 1.0), (1000, 0.0)] at step 500 gives 0.5
C4_Witness ==
    /\ op = "update_step" /\ exc = "none" /\ num_updates = 500
    /\ lambda_parallel_steps = <<(<<0, RatInt(1)>>), (<<1000, RatInt(0)>>)>>
    /\ Brackets(lambda_parallel_steps, num_updates) = {1}
    /\ lambda_parallel = Rat(1, 2)

C5Holds(lam, steps, n) ==
    (steps # None /\ n >= steps[Len(steps)][1]) => lam = steps[Len(steps)][2]

\* C5: after update_step(n) has returned with n at or beyond the last
\* checkpoint's step of a lambda's schedule, the lambda is exactly the last
\* checkpoint's value, for every such n.
C5_LastValueKept ==
    (op = "update_step" /\ exc = "none") =>
        /\ C5Holds(lambda_parallel, lambda_parallel_steps, num_updates)
        /\ C5Holds(lambda_otf_bt, lambda_otf_bt_steps, num_updates)
        /\ C5Holds(lambda_denoising, lambda_denoising_steps, num_updates)

\* [(0, 1.0), (1000, 0.0)] at step 5000 gives 0.0
C5_Witness ==
    /\ op = "update_step" /\ exc = "none" /\ num_updates = 5000
    /\ lambda_otf_bt_steps = <<(<<0, RatInt(1)>>), (<<1000, RatInt(0)>>)>>
    /\ lambda_otf_bt = RatInt(0)

C6Step(steps, lam, lam_after) ==
    (op' = "update_step" /\ steps # None /\ num_updates' < steps[1][1]) =>
        (exc' = "AssertionError" /\ lam_after = lam)

C6Claimed(lam, steps, n) ==
    (steps # None /\ steps[1][1] > 0 /\ n < steps[1][1]) =>
        (exc = "none" /\ lam = steps[1][2])

BackwardEvents(cs, keys) ==
    {j \in 1..Len(cs) : cs[j].fn = "optimizer.backward" /\ cs[j].key \in keys}

\* C7: the weight train_step applies to each back-translation batch's loss
\* is the back-translation lambda as last set by the schedule (or parsed):
\* the loss back-propagated and accumulated for the batch of "bt:" + pair is
\* its loss times the lambda_otf_bt the call found.
C7_Original ==
    [][op' = "train_step" =>
          \A j \in BackwardEvents(calls', BtKeySet(lang_pairs)) :
              calls'[j].loss =
                  IF ignore_grad' THEN Zero
                  ELSE RatMul(sample'[calls'[j].key].items[1].loss, lambda_otf_bt)]_vars

\* C8: in the parallel pass each pair's loss is multiplied by the parallel
\* weight the call found, i.e. the value parsed from lambda-parallel-config
\* or set by the most recent update_step.
C8_Original ==
    [][op' = "train_step" =>
          \A j \in BackwardEvents(calls', PairSet(lang_pairs)) :
              calls'[j].loss =
                  IF ignore_grad' THEN Zero
                  ELSE RatMul(sample'[calls'[j].key].loss, lambda_parallel)]_vars

\* a batch entry that holds examples
HasData(v) == v.kind = "dict" /\ v.len > 0

\* the listed pairs whose entry in the batch holds examples, in list order
PresentPairs(pairs, smp) == SelectSeq(pairs, LAMBDA p : HasData(smp[p]))

\* the models the loss function was invoked on, in call order
CriterionModels(cs) ==
    LET sel == SelectSeq(cs, LAMBDA e : e.fn = "criterion")
    IN  [j \in 1..Len(sel) |-> sel[j].model]

RECURSIVE SumLoss(_, _, _)
SumLoss(ps, smp, ig) ==
    IF ps = <<>> THEN Zero
    ELSE RatAdd(IF ig THEN Zero ELSE smp[Head(ps)].loss, SumLoss(Tail(ps), smp, ig))

RECURSIVE SumSize(_, _)
SumSize(ps, smp) ==
    IF ps = <<>> THEN 0 ELSE smp[Head(ps)].sample_size + SumSize(Tail(ps), smp)

\* C9: MultilingualTranslationTask.train_step raises nothing, invokes the
\* loss function exactly once for each model language pair whose entry in
\* the batch is present, not None and non-empty, and for no other pair; the
\* loss and sample size returned are the sums over exactly those pairs (the
\* losses zeroed under ignore_grad), and the log returned has exactly those
\* pairs as keys.
C9_PresentPairsOnly ==
    op = "train_step" =>
        /\ exc = "none"
        /\ CriterionModels(calls) = PresentPairs(model_lang_pairs, sample)
        /\ ret.agg_loss = SumLoss(PresentPairs(model_lang_pairs, sample), sample, ignore_grad)
        /\ ret.agg_sample_size = SumSize(PresentPairs(model_lang_pairs, sample), sample)
        /\ DOMAIN ret.agg_logging_output = PairSet(PresentPairs(model_lang_pairs, sample))

\* de-en is None, en-fr absent, en-de has data: only en-de is counted
C9_Witness ==
    /\ op = "train_step" /\ exc = "none" /\ ~ ignore_grad
    /\ Len(model_lang_pairs) = 3
    /\ sample[<<"de", "en">>] = PyNone
    /\ sample[<<"en", "fr">>] = Absent
    /\ HasData(sample[<<"en", "de">>])
    /\ CriterionModels(calls) = <<(<<"en", "de">>)>>
    /\ ret.agg_loss = sample[<<"en", "de">>].loss
    /\ DOMAIN ret.agg_logging_output = {<<"en", "de">>}

\* the first batch of a "bt:" + pair entry, None when the entry has none
FirstOf(v) == IF v.kind = "tuple" /\ Len(v.items) > 0 THEN v.items[1] ELSE PyNone

RECURSIVE SumBtSize(_, _)
SumBtSize(ps, smp) ==
    IF ps = <<>> THEN 0
    ELSE (IF HasData(FirstOf(smp[_get_bt_dataset_key(Head(ps))]))
          THEN FirstOf(smp[_get_bt_dataset_key(Head(ps))]).sample_size ELSE 0)
         + SumBtSize(Tail(ps), smp)

\* C10: BtTranslationTask.train_step raises no error when the parallel entry
\* or the "bt:" + pair entry of a configured pair is absent, None or empty;
\* it skips the pair in that pass and the sample size returned is the sum
\* over the entries that hold examples.
C10_Original ==
    op = "train_step" =>
        /\ exc = "none"
        /\ ret.agg_sample_size =
               SumSize(PresentPairs(lang_pairs, sample), sample)
               + SumBtSize(lang_pairs, sample)

\* the losses train_step back-propagated: optimizer.backward and loss.backward
BackPropagated(cs) ==
    {j \in 1..Len(cs) : cs[j].fn \in {"optimizer.backward", "loss.backward"}}

\* C11: under ignore_grad a train_step of BtTranslationTask that returns has
\* scaled every loss it back-propagated to zero (so that no optimizer step,
\* the data-actor optimizer's included, changes a parameter) and returns a
\* loss total of 0.
C11_Original ==
    (op = "train_step" /\ ignore_grad /\ exc = "none") =>
        /\ \A j \in BackPropagated(calls) : calls[j].loss = Zero
        /\ ret.agg_loss = Zero

\* C12: valid_step never calls optimizer.backward, invokes the loss function
\* only for the evaluation pairs whose entry in the batch holds examples, and
\* when it returns it has invoked it once for each of them, in order; loss,
\* sample size and log are over exactly those pairs (a pair in the batch that
\* is no evaluation pair contributes nothing).
C12_EvalPairsOnly ==
    op = "valid_step" =>
        /\ \A j \in 1..Len(calls) :
               calls[j].fn \notin {"optimizer.backward", "loss.backward"}
        /\ PairSet(CriterionModels(calls)) \subseteq
               PairSet(PresentPairs(eval_lang_pairs, sample))
        /\ exc = "none" =>
               /\ CriterionModels(calls) = PresentPairs(eval_lang_pairs, sample)
               /\ ret.agg_loss =
                      SumLoss(PresentPairs(eval_lang_pairs, sample), sample, FALSE)
               /\ ret.agg_sample_size =
                      SumSize(PresentPairs(eval_lang_pairs, sample), sample)
               /\ DOMAIN ret.agg_logging_output =
                      PairSet(PresentPairs(eval_lang_pairs, sample))

\* three training pairs, en-de the only evaluation pair; the batch has data
\* for all three and only en-de is counted
C12_Witness ==
    /\ op = "valid_step" /\ exc = "none"
    /\ Len(model_lang_pairs) = 3
    /\ eval_lang_pairs = <<(<<"en", "de">>)>>
    /\ \A p \in PairSet(AllPairs) : HasData(sample[p])
    /\ CriterionModels(calls) = <<(<<"en", "de">>)>>
    /\ ret.agg_loss = sample[<<"en", "de">>].loss
    /\ DOMAIN ret.agg_logging_output = {<<"en", "de">>}

----------------------------------------------------------------------------
(* build_model of both tasks.  models.build_model is outside the tasks: it *)
(* raises, or constructs a model of some class with some sub-models.       *)

\* what models.build_model(args, task) does: "raises", or a model of the
\* class kind whose .models has the keys models
Built(kind, models) == [kind |-> kind, models |-> models]

\* the architecture check accepting a model of any class
isinstance_any(m) == TRUE

\* isinstance(model, FairseqMultiModel)
isinstance_FairseqMultiModel(m) == m.kind = "FairseqMultiModel"

\* check_args stopping at the first option that differs
check_args_first(margs) ==
    IF PairSet(args.lang_pairs) # PairSet(margs.lang_pairs)
    THEN <<"--lang-pairs should include all the language pairs {}.">>
    ELSE IF args.encoder_langtok # margs.encoder_langtok
    THEN <<CASE margs.encoder_langtok = "None" -> "--encoder-langtok should be None."
             [] margs.encoder_langtok = "src" -> "--encoder-langtok should be src."
             [] margs.encoder_langtok = "tgt" -> "--encoder-langtok should be tgt.">>
    ELSE IF args.decoder_langtok # margs.decoder_langtok
    THEN <<IF margs.decoder_langtok
           THEN "--decoder-langtok should  be set."
           ELSE "--decoder-langtok should not be set.">>
    ELSE <<>>

\* check_args of MultilingualTranslationTask.build_model: the messages, one
\* per option on which the task's arguments and the model's differ
check_args(margs) ==
    (IF PairSet(args.lang_pairs) # PairSet(margs.lang_pairs)
     THEN <<"--lang-pairs should include all the language pairs {}.">>
     ELSE <<>>)
    \o
    (IF args.encoder_langtok # margs.encoder_langtok
     THEN <<CASE margs.encoder_langtok = "None" -> "--encoder-langtok should be None."
              [] margs.encoder_langtok = "src" -> "--encoder-langtok should be src."
              [] margs.encoder_langtok = "tgt" -> "--encoder-langtok should be tgt.">>
     ELSE <<>>)
    \o
    (IF args.decoder_langtok # margs.decoder_langtok
     THEN <<IF margs.decoder_langtok
            THEN "--decoder-langtok should  be set."
            ELSE "--decoder-langtok should not be set.">>
     ELSE <<>>)

\* MultilingualTranslationTask.build_model(args); message is the list that
\* ' '.join makes one text of
MultilingualTranslationTask_build_model(margs, built) ==
    /\ Constructed
    /\ task = "MultilingualTranslationTask"
    /\ op' = "build_model"
    /\ model_args' = margs
    /\ \E messages \in {check_args(margs)} :
        IF Len(messages) > 0
        THEN /\ exc' = "ValueError"
             /\ message' = messages
             /\ built_model' = NoModel
        ELSE IF built.kind = "raises"
        THEN /\ exc' = "Exception"
             /\ message' = <<>>
             /\ built_model' = NoModel
        ELSE IF ~isinstance_FairseqMultiModel(built)
        THEN /\ exc' = "ValueError"
             /\ message' =
                    <<"MultilingualTranslationTask requires a FairseqMultiModel architecture">>
             /\ built_model' = built
        ELSE /\ exc' = "none"
             /\ message' = <<>>
             /\ built_model' = built
    /\ UNCHANGED <<parse_vars, args, lang_pairs, lambdas, baseline, params, num_updates,
                   step_vars, task, model_lang_pairs, sequence_generators,
                   backtranslators, data_optimizer, setup_vars>>

\* key = '{}-{}'.format(tgt, src)
ReverseKeys(pairs) == [i \in 1..Len(pairs) |-> <<pairs[i][2], pairs[i][1]>>]

\* MultilingualTranslationTask.get_decoder_langtok(tgt_lang): an index of
\* the dictionary of tgt_lang
get_decoder_langtok(tgt_lang) ==
    IF ~args.decoder_langtok
    THEN [dict |-> tgt_lang, symbol |-> <<"</s>">>]
    ELSE [dict |-> tgt_lang, symbol |-> <<"__", tgt_lang, "__">>]

\* SequenceGenerator(tgt_dict=self.dicts[src], ...)
SequenceGenerator(lang) == [tgt_dict |-> lang]

\* the closure bound to the reverse sub-model as the closure of the forward
\* sub-model
backtranslate_fn_forward(lang_pair, key, gens) ==
    [model |-> lang_pair,
     bos_token |-> get_decoder_langtok(lang_pair[1]),
     sequence_generator |-> gens[key]]

\* def backtranslate_fn(sample, model=model.models[key],
\*                      bos_token=decoder_lang_tok_idx,
\*                      sequence_generator=self.sequence_generators[key])
backtranslate_fn(lang_pair, key, gens) ==
    [model |-> key,
     bos_token |-> get_decoder_langtok(lang_pair[1]),
     sequence_generator |-> gens[key]]

\* the loop "for lang_pair in self.lang_pairs" of build_model under
\* self.training, from the i-th pair on: model.models[key] of a missing key
\* raises after the generator of key was stored
RECURSIVE Backtranslators(_, _, _, _, _)
Backtranslators(pairs, i, built, gens, bts) ==
    IF i > Len(pairs)
    THEN [exc |-> "none", gens |-> gens, bts |-> bts]
    ELSE LET key   == ReverseKeys(pairs)[i]
             gens2 == SetItem(gens, key, SequenceGenerator(pairs[i][1]))
         IN  IF key \notin built.models
             THEN [exc |-> "KeyError", gens |-> gens2, bts |-> bts]
             ELSE Backtranslators(pairs, i + 1, built, gens2,
                                  SetItem(bts, pairs[i], backtranslate_fn(pairs[i], key, gens2)))

\* the sub-models whose parameters the data optimizer steps:
\* model.models[_get_dds_bt_key(lang_pair)] for every pair
BtParams(pairs) == [i \in 1..Len(pairs) |-> _get_dds_bt_key(pairs[i])]

\* BtTranslationTask.build_model(args).  self.lang_pairs is the list of
\* __init__ (which self.model_lang_pairs and, for training, args.lang_pairs
\* name too) until build_model replaces it with the copy
BtTranslationTask_build_model(margs, built) ==
    /\ Constructed
    /\ task = "BtTranslationTask"
    /\ op' = "build_model"
    /\ model_args' = margs
    /\ LET copied_lang_pairs == lang_pairs
           shared   == lang_pairs = model_lang_pairs
           extended == copied_lang_pairs \o ReverseKeys(copied_lang_pairs)
           missing  == {i \in 1..Len(copied_lang_pairs) :
                            BtParams(copied_lang_pairs)[i] \notin built.models}
       IN  /\ model_lang_pairs' = IF shared THEN extended ELSE model_lang_pairs
           /\ args' = IF shared /\ args.training
                      THEN [args EXCEPT !.lang_pairs = extended]
                      ELSE args
           /\ IF built.kind = "raises"
              THEN /\ exc' = "Exception"
                   /\ lang_pairs' = extended
                   /\ message' = <<>>
                   /\ built_model' = NoModel
                   /\ UNCHANGED <<sequence_generators, backtranslators, data_optimizer>>
              ELSE /\ lang_pairs' = copied_lang_pairs
                   /\ built_model' = built
                   /\ IF ~isinstance_FairseqMultiModel(built)
                      THEN /\ exc' = "ValueError"
                           /\ message' =
                                  <<"SemisupervisedTranslationTask requires a FairseqMultiModel architecture">>
                           /\ UNCHANGED <<sequence_generators, backtranslators,
                                          data_optimizer>>
                      ELSE IF args.bt_dds /\ missing # {}
                      THEN /\ exc' = "KeyError"
                           /\ message' = <<>>
                           /\ UNCHANGED <<sequence_generators, backtranslators,
                                          data_optimizer>>
                      ELSE /\ data_optimizer' = IF args.bt_dds
                                                THEN BtParams(copied_lang_pairs)
                                                ELSE data_optimizer
                           /\ message' = <<>>
                           /\ \E r \in {IF args.training
                                        THEN Backtranslators(copied_lang_pairs, 1, built,
                                                             <<>>, backtranslators)
                                        ELSE [exc |-> "none", gens |-> <<>>,
                                              bts |-> backtranslators]} :
                                /\ exc' = r.exc
                                /\ sequence_generators' = r.gens
                                /\ backtranslators' = r.bts
    /\ UNCHANGED <<parse_vars, lambdas, baseline, params, num_updates, step_vars, task,
                   setup_vars>>

----------------------------------------------------------------------------
(* SpecBuild: tasks of both classes, set up for training or for            *)
(* evaluation, and build_model with the task's own arguments or arguments  *)
(* that differ, over every outcome of models.build_model.                  *)

BuildLists ==
    { <<(<<"en", "de">>)>>,
      <<(<<"en", "de">>), (<<"en", "fr">>)>>,
      <<(<<"en", "de">>), (<<"de", "en">>)>> }

\* --encoder-langtok: not given, or one of its two choices
EncoderLangtoks == {"None", "src", "tgt"}

BuildArgs ==
    [lambda_parallel_config : {<<"1", ".", "0">>},
     lambda_otf_bt_config : {<<"0", ".", "0">>},
     lambda_denoising_config : {<<"0", ".", "0">>},
     bt_dds : BOOLEAN, lang_pairs : BuildLists, eval_lang_pairs : {None},
     encoder_langtok : EncoderLangtoks, decoder_langtok : BOOLEAN,
     training : {TRUE}, source_lang : {None}, target_lang : {None}]
    \cup
    [lambda_parallel_config : {<<"1", ".", "0">>},
     lambda_otf_bt_config : {<<"0", ".", "0">>},
     lambda_denoising_config : {<<"0", ".", "0">>},
     bt_dds : BOOLEAN, lang_pairs : {<<(<<"en", "de">>), (<<"en", "fr">>)>>},
     eval_lang_pairs : {None}, encoder_langtok : {"None"}, decoder_langtok : {TRUE},
     training : {FALSE}, source_lang : {"en"}, target_lang : {"fr"}]

InitBuild ==
    /\ args \in BuildArgs
    /\ NotConstructed

\* the arguments of the model: the options check_args compares
ModelArgs ==
    [lang_pairs : BuildLists, encoder_langtok : EncoderLangtoks,
     decoder_langtok : BOOLEAN]

\* the keys a constructed model can have
ModelKeys == {<<"en", "de">>, <<"de", "en">>, <<"en", "fr">>, <<"fr", "en">>}

\* the outcomes of models.build_model
Builds ==
    {Built("raises", {}), Built("FairseqModel", {})}
    \cup {Built("FairseqMultiModel", keys) : keys \in SUBSET ModelKeys}

MultiBuildModel ==
    \E margs \in ModelArgs : \E built \in Builds :
        MultilingualTranslationTask_build_model(margs, built)

BtBuildModel ==
    \E margs \in ModelArgs : \E built \in Builds :
        BtTranslationTask_build_model(margs, built)

NextBuild ==
    \/ MultilingualTranslationTask_init
    \/ Construct
    \/ MultiBuildModel
    \/ BtBuildModel

SpecBuild == InitBuild /\ [][NextBuild]_vars

----------------------------------------------------------------------------
(* C13: the configuration check of MultilingualTranslationTask.build_model *)

\* the options on which the arguments of the model differ from the task's
Discrepancies(margs) ==
    {o \in {"lang_pairs", "encoder_langtok", "decoder_langtok"} :
        CASE o = "lang_pairs" ->
                 \E p \in PairSet(args.lang_pairs) \cup PairSet(margs.lang_pairs) :
                     ~(p \in PairSet(args.lang_pairs) /\ p \in PairSet(margs.lang_pairs))
          [] o = "encoder_langtok" -> args.encoder_langtok # margs.encoder_langtok
          [] o = "decoder_langtok" -> args.decoder_langtok # margs.decoder_langtok}

\* the messages that name an option
MessagesNaming(o) ==
    CASE o = "lang_pairs" -> {"--lang-pairs should include all the language pairs {}."}
      [] o = "encoder_langtok" -> {"--encoder-langtok should be None.",
                                   "--encoder-langtok should be src.",
                                   "--encoder-langtok should be tgt."}
      [] o = "decoder_langtok" -> {"--decoder-langtok should  be set.",
                                   "--decoder-langtok should not be set."}

\* the error is the configuration error and has exactly one message for
\* every option that differs
NamesEvery(margs) ==
    /\ exc = "ValueError"
    /\ Len(message) = Cardinality(Discrepancies(margs))
    /\ \A o \in Discrepancies(margs) :
           \E i \in 1..Len(message) : message[i] \in MessagesNaming(o)

MultiBuilt == op = "build_model" /\ task = "MultilingualTranslationTask"

\* C13 (as amended): MultilingualTranslationTask.build_model fails with the
\* configuration error if and only if the language-pair set, the encoder
\* token mode or the decoder token mode of the caller differs from the
\* task's, and that one error has one message for every option that differs;
\* when nothing differs it fails only because the construction of the model
\* raised or because the model is not a FairseqMultiModel.
C13_NamesEveryDiscrepancy ==
    MultiBuilt =>
        IF Discrepancies(model_args) # {}
        THEN NamesEvery(model_args)
        ELSE /\ \A i \in 1..Len(message) :
                    \A o \in {"lang_pairs", "encoder_langtok", "decoder_langtok"} :
                        message[i] \notin MessagesNaming(o)
             /\ exc # "none" =>
                    \/ exc = "Exception" /\ built_model = NoModel
                    \/ exc = "ValueError" /\ built_model.kind # "FairseqMultiModel"

\* all three options differ and the error has the three messages, in the
\* order of the checks
C13_Witness ==
    /\ MultiBuilt
    /\ Discrepancies(model_args) = {"lang_pairs", "encoder_langtok", "decoder_langtok"}
    /\ exc = "ValueError"
    /\ message = <<"--lang-pairs should include all the language pairs {}.",
                   "--encoder-langtok should be src.",
                   "--decoder-langtok should not be set.">>

\* C13 as stated: build_model fails if and only if one of the three options
\* differs, and then names every one of them.
C13_Original ==
    MultiBuilt =>
        /\ exc # "none" <=> Discrepancies(model_args) # {}
        /\ Discrepancies(model_args) # {} => NamesEvery(model_args)

----------------------------------------------------------------------------
(* C14: the architecture check of build_model                              *)

ArchitectureMessages ==
    {<<"MultilingualTranslationTask requires a FairseqMultiModel architecture">>,
     <<"SemisupervisedTranslationTask requires a FairseqMultiModel architecture">>}

\* build_model failed with the architecture error
ArchitectureError == exc = "ValueError" /\ message \in ArchitectureMessages

\* the pairs the constructed model has no sub-model for, among the pairs the
\* model is constructed for (task.model_lang_pairs)
MissingSubModels == PairSet(model_lang_pairs) \ built_model.models

\* C14 (as amended): build_model of either task returns a model only if the
\* constructed model is a FairseqMultiModel, and a constructed model of any
\* other class makes it fail with the architecture error; the sub-models of
\* a FairseqMultiModel are not checked: one that lacks sub-models is
\* returned, except that BtTranslationTask.build_model fails with a KeyError
\* when a reverse sub-model it addresses is missing.
C14_ArchitectureIsTheClass ==
    op = "build_model" =>
        /\ exc = "none" => built_model.kind = "FairseqMultiModel"
        /\ built_model.kind = "FairseqModel" => ArchitectureError
        /\ (built_model.kind = "FairseqMultiModel" /\ exc # "none") =>
               /\ task = "BtTranslationTask"
               /\ exc = "KeyError"
               /\ args.bt_dds \/ args.training
               /\ \E i \in 1..Len(lang_pairs) :
                      ReverseKeys(lang_pairs)[i] \notin built_model.models

\* a model that is not a FairseqMultiModel was constructed for a
\* BtTranslationTask and build_model raised the architecture error
C14_Witness ==
    /\ op = "build_model" /\ task = "BtTranslationTask"
    /\ built_model.kind = "FairseqModel"
    /\ exc = "ValueError"
    /\ message = <<"SemisupervisedTranslationTask requires a FairseqMultiModel architecture">>

\* C14 as stated: build_model returns only a model with a sub-model for
\* every required pair, and a constructed model that lacks one makes it fail
\* with the architecture error.
C14_Original ==
    (op = "build_model" /\ built_model.kind # "none") =>
        /\ exc = "none" => MissingSubModels = {}
        /\ MissingSubModels # {} => ArchitectureError

----------------------------------------------------------------------------
(* C19: the back-translation closures of BtTranslationTask.build_model     *)

BtBuiltForTraining ==
    /\ op = "build_model" /\ task = "BtTranslationTask"
    /\ exc = "none" /\ args.training

\* C19: after BtTranslationTask.build_model on a task set up for training,
\* every configured pair s-t has one back-translation closure, keyed by
\* s-t, which generates with the sub-model of the reverse pair t-s and with
\* the sequence generator stored for t-s, built over the dictionary of s,
\* and starts with the decoder token of s; no closure is bound to the
\* forward sub-model s-t.
C19_ReverseClosures ==
    BtBuiltForTraining =>
        /\ DOMAIN backtranslators = PairSet(lang_pairs)
        /\ \A p \in PairSet(lang_pairs) :
            /\ backtranslators[p].model = <<p[2], p[1]>>
            /\ backtranslators[p].model \in built_model.models
            /\ <<p[2], p[1]>> \in DOMAIN sequence_generators
            /\ backtranslators[p].sequence_generator = sequence_generators[<<p[2], p[1]>>]
            /\ backtranslators[p].sequence_generator.tgt_dict = p[1]
            /\ backtranslators[p].bos_token.dict = p[1]
            /\ backtranslators[p].bos_token.symbol =
                   IF args.decoder_langtok THEN <<"__", p[1], "__">> ELSE <<"</s>">>
            /\ p[1] # p[2] => backtranslators[p].model # p

\* a task for en-de and en-fr was built: the closure of en-fr generates
\* with the sub-model fr-en from the language token of en
C19_Witness ==
    /\ BtBuiltForTraining
    /\ lang_pairs = <<(<<"en", "de">>), (<<"en", "fr">>)>>
    /\ args.decoder_langtok
    /\ DOMAIN backtranslators = {<<"en", "de">>, <<"en", "fr">>}
    /\ backtranslators[<<"en", "fr">>].model = <<"fr", "en">>
    /\ backtranslators[<<"en", "fr">>].bos_token.symbol = <<"__", "en", "__">>
    /\ backtranslators[<<"en", "fr">>].sequence_generator.tgt_dict = "en"

----------------------------------------------------------------------------
(* C20: the parameters of the model across the bt_dds block                *)

\* C20 as stated: in the bt_dds variant of train_step the parameters of the
\* model are never left mutated: when train_step raises, the parameters are
\* the original ones again.
C20_Original ==
    (op = "train_step" /\ args.bt_dds /\ exc # "none") => params = "orig"

----------------------------------------------------------------------------
(* MultilingualTranslationTask.prepare.  The text of --lang-pairs is        *)
(* represented by the list of its pairs, None when the option is missing.  *)

\* the place of a language in sorted(): the alphabetical order
LangRank == [de |-> 1, en |-> 2, fr |-> 3]
AllLangs == {"de", "en", "fr"}

LangsOf(pairs) == {pairs[i][1] : i \in 1..Len(pairs)} \cup {pairs[i][2] : i \in 1..Len(pairs)}

\* sorted(list({x for lang_pair in args.lang_pairs for x in lang_pair.split('-')}))
RECURSIVE sorted(_)
sorted(S) ==
    IF S = {}
    THEN <<>>
    ELSE LET m == CHOOSE a \in S : \A b \in S : LangRank[a] <= LangRank[b]
         IN  <<m>> \o sorted(S \ {m})

\* the three assertions comparing pad only
SameIndices_pad(d, first) == d.pad = first.pad

\* assert dicts[lang].pad() == dicts[sorted_langs[0]].pad(), and the same
\* for eos() and unk()
SameIndices(d, first) ==
    /\ d.pad = first.pad
    /\ d.eos = first.eos
    /\ d.unk = first.unk

\* Dictionary.load of the file of lang, then add_symbol(_lang_token(...))
\* for every language when a language token is configured
LoadedDict(a, sorted_langs, lang) ==
    [pad |-> dict_files[lang].pad, eos |-> dict_files[lang].eos,
     unk |-> dict_files[lang].unk,
     lang_tokens |-> IF a.encoder_langtok # "None" \/ a.decoder_langtok
                     THEN {sorted_langs[i] : i \in 1..Len(sorted_langs)}
                     ELSE {}]

\* the loop "for lang in sorted_langs" from the i-th language on
RECURSIVE LoadDicts(_, _, _, _)
LoadDicts(a, sorted_langs, i, dicts) ==
    IF i > Len(sorted_langs)
    THEN Return(dicts)
    ELSE LET lang   == sorted_langs[i]
             dicts2 == SetItem(dicts, lang, LoadedDict(a, sorted_langs, lang))
         IN  IF ~SameIndices(dicts2[lang], dicts2[sorted_langs[1]])
             THEN Raise("AssertionError")
             ELSE LoadDicts(a, sorted_langs, i + 1, dicts2)

\* prepare(args): the dictionaries and whether the task is for training
prepare(a) ==
    IF a.lang_pairs = None
    THEN Raise("ValueError")
    ELSE LET sorted_langs == sorted(LangsOf(a.lang_pairs))
             training     == ~(a.source_lang # "None" \/ a.target_lang # "None")
             loaded       == LoadDicts(a, sorted_langs, 1, <<>>)
         IN  IF loaded.exc # "none"
             THEN loaded
             ELSE Return([dicts |-> loaded.val, training |-> training])

----------------------------------------------------------------------------
(* SpecPrepare: prepare over every choice of the three indices in the      *)
(* dictionary files of three languages.                                    *)

PrepareLists ==
    { None,
      <<(<<"en", "de">>)>>,
      <<(<<"en", "de">>), (<<"en", "fr">>)>>,
      <<(<<"fr", "en">>), (<<"en", "fr">>)>> }

\* the options before prepare; "None" is an option that was not given
PrepareArgs ==
    [lang_pairs : PrepareLists, eval_lang_pairs : {None},
     source_lang : {"None", "en"}, target_lang : {"None"},
     encoder_langtok : {"None", "tgt"}, decoder_langtok : BOOLEAN]

\* the indices a dictionary file can give to pad, eos and unk
DictFiles == [pad : 1..MaxIndex, eos : 1..MaxIndex, unk : 1..MaxIndex]

InitPrepare ==
    /\ args \in PrepareArgs
    /\ x = <<>> /\ parsed = NotCalled
    /\ lang_pairs = None /\ baseline = None
    /\ lambda_parallel = None /\ lambda_parallel_steps = None
    /\ lambda_otf_bt = None /\ lambda_otf_bt_steps = None
    /\ lambda_denoising = None /\ lambda_denoising_steps = None
    /\ params = "orig" /\ op = "none" /\ exc = "none" /\ num_updates = 0
    /\ NoStepRecord
    /\ task = "none" /\ model_lang_pairs = None
    /\ sequence_generators = <<>> /\ backtranslators = <<>> /\ data_optimizer = <<>>
    /\ built_model = NoModel /\ model_args = None /\ message = <<>>
    /\ dict_files \in [AllLangs -> DictFiles]
    /\ prepared = NotCalled
    /\ alter_call = None /\ altered = None
    /\ data_files = {} /\ datasets = <<>>
    /\ backtranslate_datasets = <<>> /\ load_split = "none"
    /\ NoLogRecord

Prepare ==
    /\ prepared = NotCalled
    /\ prepared' = prepare(args)
    /\ UNCHANGED <<parse_vars, args, lang_pairs, lambdas, baseline, params, op, exc,
                   num_updates, step_vars, build_vars, dict_files, alter_call, altered,
                   data_files, datasets, backtranslate_datasets, load_split, log_vars>>

NextPrepare == Prepare

SpecPrepare == InitPrepare /\ [][NextPrepare]_vars

\* two languages of the language pairs whose dictionaries disagree on the
\* index of pad, eos or unk
Disagree(a, b) ==
    \/ dict_files[a].pad # dict_files[b].pad
    \/ dict_files[a].eos # dict_files[b].eos
    \/ dict_files[a].unk # dict_files[b].unk

\* C15: prepare fails whenever two languages of the language pairs have
\* dictionaries that disagree on the index of pad, eos or unk, whichever
\* two languages they are, and it returns only when all the dictionaries
\* have the same three indices.
C15_DictionariesAgree ==
    (prepared.exc # "not called" /\ args.lang_pairs # None) =>
        /\ (\E a, b \in LangsOf(args.lang_pairs) : Disagree(a, b)) =>
               prepared.exc = "AssertionError"
        /\ prepared.exc = "none" =>
               \A a, b \in LangsOf(args.lang_pairs) :
                   /\ ~Disagree(a, b)
                   /\ prepared.val.dicts[a].pad = prepared.val.dicts[b].pad
                   /\ prepared.val.dicts[a].eos = prepared.val.dicts[b].eos
                   /\ prepared.val.dicts[a].unk = prepared.val.dicts[b].unk

\* the dictionaries of en and fr disagree on unk only, both agree with the
\* dictionary of de, the first language, on pad and eos, and prepare failed
C15_Witness ==
    /\ prepared.exc = "AssertionError"
    /\ args.lang_pairs = <<(<<"en", "de">>), (<<"en", "fr">>)>>
    /\ dict_files["en"].unk # dict_files["fr"].unk
    /\ dict_files["en"].unk = dict_files["de"].unk
    /\ ~Disagree("en", "de")
    /\ dict_files["fr"].pad = dict_files["de"].pad
    /\ dict_files["fr"].eos = dict_files["de"].eos

----------------------------------------------------------------------------
(* MultilingualTranslationTask.alter_dataset_langtok and load_dataset.     *)
(* A float is an exact rational.                                           *)

\* an index argument that is None
NoToken == [dict |-> "None", symbol |-> <<>>]

\* self.dicts[lang].eos()
eos(lang) == [dict |-> lang, symbol |-> <<"</s>">>]

\* MultilingualTranslationTask.get_encoder_langtok(src_lang, tgt_lang): an
\* index of the dictionary of src_lang
get_encoder_langtok(src_lang, tgt_lang) ==
    IF args.encoder_langtok = "None"
    THEN eos(src_lang)
    ELSE IF args.encoder_langtok = "src"
    THEN [dict |-> src_lang, symbol |-> <<"__", src_lang, "__">>]
    ELSE [dict |-> src_lang, symbol |-> <<"__", tgt_lang, "__">>]

\* tgt_langs.index(tgt_lang): the first place of tgt_lang (from 1)
ListIndex(list, v) == CHOOSE i \in 1..Len(list) : list[i] = v /\ \A j \in 1..(i - 1) : list[j] # v

\* the arguments of alter_dataset_langtok
AlterCall(dataset, src_eos, src_lang, tgt_eos, tgt_lang, tgt_langs, split) ==
    [lang_pair_dataset |-> dataset, src_eos |-> src_eos, src_lang |-> src_lang,
     tgt_eos |-> tgt_eos, tgt_lang |-> tgt_lang, tgt_langs |-> tgt_langs, split |-> split]

\* TransformEosLangPairDataset(lang_pair_dataset, src_eos=..., ..., split=split)
TransformEosLangPairDataset(dataset, src_eos, new_src_eos, tgt_bos, new_tgt_bos, list, probs, split) ==
    [kind |-> "TransformEosLangPairDataset", dataset |-> dataset,
     src_eos |-> src_eos, new_src_eos |-> new_src_eos,
     tgt_bos |-> tgt_bos, new_tgt_bos |-> new_tgt_bos,
     new_src_eos_list |-> list, new_src_eos_list_probs |-> probs, split |-> split]

\* the guard of alter_dataset_langtok met only when no tag is sampled either
NoTokenPolicy_unsampled ==
    /\ args.encoder_langtok = "None" /\ ~args.decoder_langtok
    /\ ~RatLt(Zero, args.sample_tag_prob)

\* "self.args.encoder_langtok is None and not self.args.decoder_langtok"
NoTokenPolicy == args.encoder_langtok = "None" /\ ~args.decoder_langtok

\* alter_dataset_langtok(lang_pair_dataset, src_eos, src_lang, tgt_eos,
\*                       tgt_lang, tgt_langs, split)
alter_dataset_langtok(c) ==
    IF NoTokenPolicy
    THEN Return(c.lang_pair_dataset)
    ELSE LET enc == /\ args.encoder_langtok # "None" /\ c.src_eos # NoToken
                    /\ c.src_lang # "None" /\ c.tgt_lang # "None"
             dec == args.decoder_langtok /\ c.tgt_eos # NoToken /\ c.tgt_lang # "None"
             new_src_eos == IF enc THEN get_encoder_langtok(c.src_lang, c.tgt_lang)
                            ELSE NoToken
             src_eos     == IF enc THEN c.src_eos ELSE NoToken
             new_tgt_bos == IF dec THEN get_decoder_langtok(c.tgt_lang) ELSE NoToken
             tgt_eos     == IF dec THEN c.tgt_eos ELSE NoToken
             n           == Len(c.tgt_langs)
             sampled     == /\ c.split = "train"
                            /\ \E i \in 1..n : c.tgt_langs[i] = c.tgt_lang
         IN  IF ~sampled
             THEN Return(TransformEosLangPairDataset(c.lang_pair_dataset, src_eos,
                             new_src_eos, tgt_eos, new_tgt_bos, None, None, c.split))
             ELSE IF n - 1 = 0
             THEN Raise("ZeroDivisionError")
             ELSE IF c.src_lang = "None"
             THEN Raise("KeyError")
             ELSE LET cur_tgt_idx == ListIndex(c.tgt_langs, c.tgt_lang)
                      p == RatDiv(args.sample_tag_prob, RatInt(n - 1))
                  IN  Return(TransformEosLangPairDataset(c.lang_pair_dataset, src_eos,
                          new_src_eos, tgt_eos, new_tgt_bos,
                          [i \in 1..n |-> get_encoder_langtok(c.src_lang, c.tgt_langs[i])],
                          [i \in 1..n |-> IF i = cur_tgt_idx
                                          THEN RatSub(RatInt(1), args.sample_tag_prob)
                                          ELSE p],
                          c.split))

\* load_langpair_dataset(data_path, split, src, ..., tgt, ...) of a pair
\* whose files exist
LanguagePairDataset(split, src, tgt) ==
    [kind |-> "LanguagePairDataset", split |-> split, src |-> src, tgt |-> tgt]

\* tgt_langs of load_dataset: the target of every pair, in order, when
\* sample_tag_prob > 0
TgtLangs ==
    IF RatLt(Zero, args.sample_tag_prob)
    THEN [i \in 1..Len(lang_pairs) |-> lang_pairs[i][2]]
    ELSE <<>>

\* language_pair_dataset(lang_pair) of MultilingualTranslationTask.load_dataset
language_pair_dataset(split, lang_pair) ==
    IF <<split, lang_pair[1], lang_pair[2]>> \notin data_files
    THEN Raise("FileNotFoundError")
    ELSE alter_dataset_langtok(
             AlterCall(LanguagePairDataset(split, lang_pair[1], lang_pair[2]),
                       eos(lang_pair[2]), lang_pair[1], NoToken, lang_pair[2],
                       TgtLangs, split))

\* OrderedDict([(lang_pair, language_pair_dataset(lang_pair)) for lang_pair
\* in lang_pairs]), from the i-th pair on
RECURSIVE PairDatasets(_, _, _, _)
PairDatasets(split, pairs, i, d) ==
    IF i > Len(pairs)
    THEN Return(d)
    ELSE LET r == language_pair_dataset(split, pairs[i])
         IN  IF r.exc # "none"
             THEN r
             ELSE PairDatasets(split, pairs, i + 1, SetItem(d, pairs[i], r.val))

\* MultilingualTranslationTask.load_dataset(split)
MultilingualTranslationTask_load_dataset(split) ==
    /\ Constructed
    /\ task = "MultilingualTranslationTask"
    /\ op' = "load_dataset"
    /\ \E r \in {PairDatasets(split,
                              IF split = "valid" THEN eval_lang_pairs ELSE lang_pairs,
                              1, <<>>)} :
        /\ exc' = r.exc
        /\ datasets' =
               IF r.exc # "none"
               THEN datasets
               ELSE IF args.dataset_type = "round_robin" \/ split # "train"
               THEN SetItem(datasets, split,
                            [kind |-> "RoundRobinZipDatasets", datasets |-> r.val])
               ELSE IF args.dataset_type = "multi"
               THEN SetItem(datasets, split,
                            [kind |-> "MultiCorpusSampledDataset", datasets |-> r.val])
               ELSE IF args.dataset_type = "tcs"
               THEN SetItem(datasets, split,
                            [kind |-> "TCSSampledDataset", datasets |-> r.val])
               ELSE datasets
    /\ alter_call' = None
    /\ altered' = None
    /\ load_split' = split
    /\ UNCHANGED <<parse_vars, args, lang_pairs, lambdas, baseline, params, num_updates,
                   step_vars, build_vars, dict_files, prepared, data_files,
                   backtranslate_datasets, log_vars>>

\* a call of alter_dataset_langtok on the task, recorded when no other call
\* is on record
AlterDatasetLangtok(c) ==
    /\ Constructed
    /\ alter_call = None
    /\ op' = "alter_dataset_langtok"
    /\ alter_call' = c
    /\ \E r \in {alter_dataset_langtok(c)} :
        /\ exc' = r.exc
        /\ altered' = r.val
    /\ UNCHANGED <<parse_vars, args, lang_pairs, lambdas, baseline, params, num_updates,
                   step_vars, build_vars, dict_files, prepared, data_files, datasets,
                   backtranslate_datasets, load_split, log_vars>>

----------------------------------------------------------------------------
(* SpecLoad: a MultilingualTranslationTask with every token policy, with   *)
(* and without sampled tags, loading its splits and altering datasets.     *)

LoadLists ==
    { <<(<<"en", "de">>)>>,
      <<(<<"en", "de">>), (<<"en", "fr">>)>>,
      <<(<<"en", "de">>), (<<"fr", "de">>), (<<"en", "fr">>)>> }

\* --sample-tag-prob: -1 (the default), a half, a quarter
SampleTagProbs == {RatInt(-1), Rat(1, 2), Rat(1, 4)}

LoadArgs ==
    [lang_pairs : LoadLists, eval_lang_pairs : {None}, training : {TRUE},
     source_lang : {None}, target_lang : {None},
     encoder_langtok : EncoderLangtoks, decoder_langtok : BOOLEAN,
     sample_tag_prob : SampleTagProbs, dataset_type : {"round_robin", "multi"}]

Splits == {"train", "valid"}

\* the files of every configured pair, or all but the training files of
\* en-fr
DataFileSets ==
    LET all == {<<s, p[1], p[2]>> : s \in Splits,
                    p \in {<<"en", "de">>, <<"fr", "de">>, <<"en", "fr">>}}
    IN  {all, all \ {<<"train", "en", "fr">>}}

InitLoad ==
    /\ args \in LoadArgs
    /\ x = <<>> /\ parsed = NotCalled
    /\ lang_pairs = None /\ baseline = None
    /\ lambda_parallel = None /\ lambda_parallel_steps = None
    /\ lambda_otf_bt = None /\ lambda_otf_bt_steps = None
    /\ lambda_denoising = None /\ lambda_denoising_steps = None
    /\ params = "orig" /\ op = "none" /\ exc = "none" /\ num_updates = 0
    /\ NoStepRecord
    /\ task = "none" /\ model_lang_pairs = None
    /\ sequence_generators = <<>> /\ backtranslators = <<>> /\ data_optimizer = <<>>
    /\ built_model = NoModel /\ model_args = None /\ message = <<>>
    /\ dict_files = <<>> /\ prepared = NotCalled
    /\ alter_call = None /\ altered = None
    /\ data_files \in DataFileSets
    /\ datasets = <<>>
    /\ backtranslate_datasets = <<>> /\ load_split = "none"
    /\ NoLogRecord

\* the arguments alter_dataset_langtok is called with
AlterCalls ==
    {AlterCall(LanguagePairDataset(split, "en", "de"), src_eos, src_lang, tgt_eos,
               tgt_lang, tgt_langs, split) :
        src_eos \in {NoToken, eos("de")}, src_lang \in {"None", "en"},
        tgt_eos \in {NoToken, eos("de")}, tgt_lang \in {"None", "de", "fr"},
        tgt_langs \in {<<>>, <<"de">>, <<"de", "fr">>, <<"de", "de", "fr">>},
        split \in Splits}

MultiLoadDataset == \E split \in Splits : MultilingualTranslationTask_load_dataset(split)

AlterDataset == \E c \in AlterCalls : AlterDatasetLangtok(c)

NextLoad ==
    \/ MultilingualTranslationTask_init
    \/ MultiLoadDataset
    \/ AlterDataset

SpecLoad == InitLoad /\ [][NextLoad]_vars

----------------------------------------------------------------------------
(* C16, C17: alter_dataset_langtok                                         *)

Altered == op = "alter_dataset_langtok"

\* C16: when neither the encoder token policy nor the decoder token policy
\* is configured, alter_dataset_langtok returns the dataset it was given,
\* whatever its other arguments are, and so does every dataset load_dataset
\* stores.
C16_NoPolicyNoChange ==
    (args.encoder_langtok = "None" /\ ~args.decoder_langtok) =>
        /\ Altered => (exc = "none" /\ altered = alter_call.lang_pair_dataset)
        /\ \A s \in DOMAIN datasets : \A p \in DOMAIN datasets[s].datasets :
               datasets[s].datasets[p] = LanguagePairDataset(s, p[1], p[2])

\* without a policy, a call for the training split whose target is the one
\* eligible target returned the dataset given
C16_Witness ==
    /\ Altered /\ exc = "none"
    /\ args.encoder_langtok = "None" /\ ~args.decoder_langtok
    /\ RatLt(Zero, args.sample_tag_prob)
    /\ alter_call.split = "train"
    /\ alter_call.tgt_lang = "de" /\ alter_call.tgt_langs = <<"de">>
    /\ alter_call.src_eos # NoToken /\ alter_call.tgt_eos # NoToken
    /\ altered = LanguagePairDataset("train", "en", "de")

\* the probability a list of tokens and of probabilities gives to a token:
\* the sum over the places where the token stands, from place i on
RECURSIVE TokenProb(_, _, _, _)
TokenProb(tokens, probs, tok, i) ==
    IF i > Len(tokens)
    THEN Zero
    ELSE RatAdd(IF tokens[i] = tok THEN probs[i] ELSE Zero,
                TokenProb(tokens, probs, tok, i + 1))

\* the sum of a list of probabilities, from place i on
RECURSIVE SumProbs(_, _)
SumProbs(probs, i) ==
    IF i > Len(probs) THEN Zero ELSE RatAdd(probs[i], SumProbs(probs, i + 1))

\* the eligible target languages: the targets of the configured pairs
EligibleTargets == {lang_pairs[i][2] : i \in 1..Len(lang_pairs)}

\* the distribution of the dataset d built for the pair src-tgt gives the
\* token of tgt 1 - sample_tag_prob and the token of every other eligible
\* target an equal share of sample_tag_prob, and sums to 1
FavorsTrueTarget(d, src, tgt) ==
    LET tokens == d.new_src_eos_list
        probs  == d.new_src_eos_list_probs
        others == EligibleTargets \ {tgt}
    IN  /\ TokenProb(tokens, probs, get_encoder_langtok(src, tgt), 1)
               = RatSub(RatInt(1), args.sample_tag_prob)
        /\ \A t \in others :
               TokenProb(tokens, probs, get_encoder_langtok(src, t), 1)
                   = RatDiv(args.sample_tag_prob, RatInt(Cardinality(others)))
        /\ SumProbs(probs, 1) = RatInt(1)

\* C17 as stated: on the training split, with the encoder token of the
\* target language and sample_tag_prob > 0, the distribution load_dataset
\* builds for every pair gives the token of the true target 1 - p and the
\* token of each other eligible target an equal share of p, also when
\* several pairs share a target language.
C17_Original ==
    (/\ op = "load_dataset" /\ exc = "none" /\ "train" \in DOMAIN datasets
     /\ args.encoder_langtok = "tgt" /\ RatLt(Zero, args.sample_tag_prob)) =>
        \A p \in DOMAIN datasets["train"].datasets :
            FavorsTrueTarget(datasets["train"].datasets[p], p[1], p[2])

\* the distribution is the stated one for the lists of two or more pairs in
\* which no two pairs share a target language
C17_DistinctTargets ==
    (/\ op = "load_dataset" /\ exc = "none" /\ "train" \in DOMAIN datasets
     /\ args.encoder_langtok = "tgt" /\ RatLt(Zero, args.sample_tag_prob)
     /\ Cardinality(EligibleTargets) = Len(lang_pairs)) =>
        \A p \in DOMAIN datasets["train"].datasets :
            FavorsTrueTarget(datasets["train"].datasets[p], p[1], p[2])

----------------------------------------------------------------------------
(* BtTranslationTask.load_dataset.  data_files holds <<split, a, b>> when   *)
(* the files "split.a-b.*" exist, b being "None" for monolingual data.     *)

\* split_exists(split, src, tgt, lang)
split_exists(split, src, tgt) == <<split, src, tgt>> \in data_files

\* split.startswith("train")
StartsWithTrain(split) == split \in {"train", "train1"}

\* the pairs load_dataset finds parallel data for: in the files named
\* src-tgt, or else in the files named tgt-src
HasParallel(split, lang_pair) ==
    \/ split_exists(split, lang_pair[1], lang_pair[2])
    \/ split_exists(split, lang_pair[2], lang_pair[1])

\* src_datasets and tgt_datasets after the loop over self.lang_pairs: the
\* prefix of the files of every pair that has some
SrcDatasets(split) ==
    [p \in {q \in PairSet(lang_pairs) : HasParallel(split, q)} |->
        IF split_exists(split, p[1], p[2]) THEN <<p[1], p[2]>> ELSE <<p[2], p[1]>>]

\* language_pair_dataset(lang_pair) of BtTranslationTask.load_dataset;
\* alter_dataset_langtok gets its default tgt_langs=[] and split='train'
bt_language_pair_dataset(split, src_datasets, lang_pair) ==
    IF lang_pair \notin DOMAIN src_datasets
    THEN Raise("KeyError")
    ELSE alter_dataset_langtok(
             AlterCall(LanguagePairDataset(split, lang_pair[1], lang_pair[2]),
                       eos(lang_pair[1]), lang_pair[1], eos(lang_pair[2]), lang_pair[2],
                       <<>>, "train"))

BacktranslationDataset(tgt_dataset, backtranslation_fn, src_dict, tgt_dict, output_collater) ==
    [kind |-> "BacktranslationDataset", tgt_dataset |-> tgt_dataset,
     backtranslation_fn |-> backtranslation_fn, src_dict |-> src_dict,
     tgt_dict |-> tgt_dict, output_collater |-> output_collater]

\* the loop "for lang_pair in self.lang_pairs" under
\* split.startswith("train"), from the i-th pair on: bt is the local
\* backtranslate_datasets, self_bt the one of the task
RECURSIVE BacktranslateDatasets(_, _, _, _, _, _)
BacktranslateDatasets(split, pairs, i, src_datasets, bt, self_bt) ==
    IF i > Len(pairs)
    THEN [exc |-> "none", bt |-> bt, self_bt |-> self_bt]
    ELSE LET src == pairs[i][1]
             tgt == pairs[i][2]
             tgt_dataset ==
                 alter_dataset_langtok(
                     AlterCall(LanguagePairDataset(split, tgt, "None"),
                               eos(tgt), tgt, NoToken, src, <<>>, "train"))
             collater == bt_language_pair_dataset(split, src_datasets, pairs[i])
         IN  IF ~split_exists(split, tgt, "None")
             THEN [exc |-> "FileNotFoundError", bt |-> bt, self_bt |-> self_bt]
             ELSE IF tgt_dataset.exc # "none"
             THEN [exc |-> tgt_dataset.exc, bt |-> bt, self_bt |-> self_bt]
             ELSE IF pairs[i] \notin DOMAIN backtranslators
             THEN [exc |-> "KeyError", bt |-> bt, self_bt |-> self_bt]
             ELSE IF collater.exc # "none"
             THEN [exc |-> collater.exc, bt |-> bt, self_bt |-> self_bt]
             ELSE LET d == BacktranslationDataset(tgt_dataset.val, backtranslators[pairs[i]],
                                                  src, tgt, collater.val)
                  IN  BacktranslateDatasets(split, pairs, i + 1, src_datasets,
                                            SetItem(bt, pairs[i], d),
                                            SetItem(self_bt, pairs[i], d))

\* the OrderedDict of the composite: every pair of src_datasets, then the
\* back-translation dataset of every pair under its "bt:" key
Composite(split, src_datasets, bt) ==
    [k \in (DOMAIN src_datasets) \cup {_get_bt_dataset_key(p) : p \in DOMAIN bt} |->
        IF k \in DOMAIN src_datasets
        THEN bt_language_pair_dataset(split, src_datasets, k).val
        ELSE bt[<<k[2], k[3]>>]]

\* BtTranslationTask.load_dataset(split); the iterator over the validation
\* set that bt_dds makes of self.datasets['valid'] has no state here
BtTranslationTask_load_dataset(split) ==
    /\ Constructed
    /\ task = "BtTranslationTask"
    /\ op' = "load_dataset"
    /\ load_split' = split
    /\ alter_call' = None
    /\ altered' = None
    /\ \E src_datasets \in {SrcDatasets(split)} :
        IF DOMAIN src_datasets = {}
        THEN /\ exc' = "FileNotFoundError"
             /\ UNCHANGED <<datasets, backtranslate_datasets>>
        ELSE \E r \in {IF StartsWithTrain(split)
                       THEN BacktranslateDatasets(split, lang_pairs, 1, src_datasets, <<>>,
                                                  backtranslate_datasets)
                       ELSE [exc |-> "none", bt |-> <<>>,
                             self_bt |-> backtranslate_datasets]} :
                /\ exc' = r.exc
                /\ backtranslate_datasets' = r.self_bt
                /\ datasets' =
                       IF r.exc # "none"
                       THEN datasets
                       ELSE SetItem(datasets, split,
                                [kind |-> "RoundRobinZipDatasets",
                                 datasets |-> Composite(split, src_datasets, r.bt),
                                 eval_key |-> IF args.training
                                              THEN None
                                              ELSE <<args.source_lang, args.target_lang>>])
    /\ UNCHANGED <<parse_vars, args, lang_pairs, lambdas, baseline, params, num_updates,
                   step_vars, build_vars, dict_files, prepared, data_files, log_vars>>

----------------------------------------------------------------------------
(* SpecBtLoad: a BtTranslationTask for one or two pairs, its model built   *)
(* or not, loading its splits from disks on which some files are missing.  *)

BtLoadLists ==
    { <<(<<"en", "de">>)>>,
      <<(<<"en", "de">>), (<<"en", "fr">>)>> }

BtLoadArgs ==
    [lambda_parallel_config : {<<"1", ".", "0">>},
     lambda_otf_bt_config : {<<"0", ".", "0">>},
     lambda_denoising_config : {<<"0", ".", "0">>},
     bt_dds : BOOLEAN, lang_pairs : BtLoadLists,
     encoder_langtok : {"None", "tgt"}, decoder_langtok : BOOLEAN,
     sample_tag_prob : {RatInt(-1)},
     training : {TRUE}, source_lang : {None}, target_lang : {None}]

\* the monolingual files of both targets, for both splits
Monolingual == {<<s, t, "None">> : s \in Splits, t \in {"de", "fr"}}

\* the parallel files of a pair under a name, for both splits
Parallel(a, b) == {<<s, a, b>> : s \in Splits}

\* everything; en-de only; en-de under the name de-en; no parallel data;
\* no monolingual fr for training; en-fr for validation only
BtDataFileSets ==
    { Monolingual \cup Parallel("en", "de") \cup Parallel("en", "fr"),
      Monolingual \cup Parallel("en", "de"),
      Monolingual \cup Parallel("de", "en") \cup Parallel("en", "fr"),
      Monolingual,
      (Monolingual \ {<<"train", "fr", "None">>})
          \cup Parallel("en", "de") \cup Parallel("en", "fr"),
      Monolingual \cup Parallel("en", "de") \cup {<<"valid", "en", "fr">>} }

InitBtLoad ==
    /\ args \in BtLoadArgs
    /\ x = <<>> /\ parsed = NotCalled
    /\ lang_pairs = None /\ baseline = None
    /\ lambda_parallel = None /\ lambda_parallel_steps = None
    /\ lambda_otf_bt = None /\ lambda_otf_bt_steps = None
    /\ lambda_denoising = None /\ lambda_denoising_steps = None
    /\ params = "orig" /\ op = "none" /\ exc = "none" /\ num_updates = 0
    /\ NoStepRecord
    /\ task = "none" /\ model_lang_pairs = None
    /\ sequence_generators = <<>> /\ backtranslators = <<>> /\ data_optimizer = <<>>
    /\ built_model = NoModel /\ model_args = None /\ message = <<>>
    /\ dict_files = <<>> /\ prepared = NotCalled
    /\ alter_call = None /\ altered = None
    /\ data_files \in BtDataFileSets
    /\ datasets = <<>>
    /\ backtranslate_datasets = <<>> /\ load_split = "none"
    /\ NoLogRecord

\* build_model with the arguments of the task, the model having every
\* sub-model
BtBuildOwnModel ==
    BtTranslationTask_build_model(
        [lang_pairs |-> args.lang_pairs, encoder_langtok |-> args.encoder_langtok,
         decoder_langtok |-> args.decoder_langtok],
        Built("FairseqMultiModel", ModelKeys))

BtLoadDataset == \E split \in Splits : BtTranslationTask_load_dataset(split)

NextBtLoad ==
    \/ Construct
    \/ BtBuildOwnModel
    \/ BtLoadDataset

SpecBtLoad == InitBtLoad /\ [][NextBtLoad]_vars

----------------------------------------------------------------------------
(* C18: the partial-coverage policy of BtTranslationTask.load_dataset      *)

\* the configured pairs that have parallel data for the split loaded
PairsWithData == {p \in PairSet(lang_pairs) : HasParallel(load_split, p)}

\* the model was built (every pair has its back-translation closure) and
\* the monolingual data of every target exists
ReadyToLoad ==
    /\ op = "load_dataset" /\ task = "BtTranslationTask"
    /\ DOMAIN backtranslators = PairSet(lang_pairs)
    /\ \A p \in PairSet(lang_pairs) : split_exists(load_split, p[2], "None")

\* C18 as stated: for every split, the training split included, a pair
\* without parallel data is skipped without failing the split, the
\* composite has exactly the pairs that have data, and the load fails, with
\* the not-found error, only when no pair has data.
C18_Original ==
    ReadyToLoad =>
        IF PairsWithData = {}
        THEN exc = "FileNotFoundError"
        ELSE /\ exc = "none"
             /\ load_split \in DOMAIN datasets
             /\ {k \in DOMAIN datasets[load_split].datasets : Len(k) = 2} = PairsWithData

\* the policy holds for the splits that are not training splits
C18_OtherSplits ==
    (ReadyToLoad /\ ~StartsWithTrain(load_split)) =>
        IF PairsWithData = {}
        THEN exc = "FileNotFoundError"
        ELSE /\ exc = "none"
             /\ load_split \in DOMAIN datasets
             /\ {k \in DOMAIN datasets[load_split].datasets : Len(k) = 2} = PairsWithData

----------------------------------------------------------------------------
(* C24: the language pairs across BtTranslationTask.build_model            *)

\* C24 as stated: a call of BtTranslationTask.build_model, whether it
\* returns or fails, leaves in the task's lang_pairs, model_lang_pairs and
\* eval_lang_pairs and in the lang_pairs of the configuration exactly the
\* pairs they held before the call.
C24_Original ==
    [][(task = "BtTranslationTask" /\ op' = "build_model") =>
          /\ PairSet(lang_pairs') = PairSet(lang_pairs)
          /\ PairSet(model_lang_pairs') = PairSet(model_lang_pairs)
          /\ PairSet(args'.lang_pairs) = PairSet(args.lang_pairs)
          /\ PairSet(IF args'.eval_lang_pairs = None
                     THEN args'.lang_pairs
                     ELSE args'.eval_lang_pairs)
                 = PairSet(eval_lang_pairs)]_vars

----------------------------------------------------------------------------
(* C25: who changes the three lambda values                                *)

\* C25 as stated: a train_step leaves the three lambda values as the last
\* update_step, or the parse of the configurations, left them.
C25_Original ==
    [][op' = "train_step" =>
          /\ lambda_parallel' = lambda_parallel
          /\ lambda_otf_bt' = lambda_otf_bt
          /\ lambda_denoising' = lambda_denoising]_vars

----------------------------------------------------------------------------
(* C23: the two passes of BtTranslationTask.train_step                     *)

\* the calls of the first loop: those made for the batch of a pair
ParallelCalls(cs) == {j \in 1..Len(cs) : cs[j].key \in PairSet(lang_pairs)}

\* the calls of the second loop: every other call after model.train()
SecondLoopCalls(cs) ==
    {j \in 1..Len(cs) : cs[j].fn # "model.train" /\ cs[j].key \notin PairSet(lang_pairs)}

\* the keys of the losses handed to optimizer.backward for a key of keys,
\* in call order
BackwardKeys(cs, keys) ==
    LET sel == SelectSeq(cs, LAMBDA e : e.fn = "optimizer.backward" /\ e.key \in keys)
    IN  [j \in 1..Len(sel) |-> sel[j].key]

\* C23: in one BtTranslationTask.train_step every call for a parallel batch
\* comes before every call of the back-translation loop; a train_step that
\* returns has computed and back-propagated the parallel loss of every pair
\* that has a batch, in the order of lang_pairs, and then the
\* back-translation loss of every pair in the same order; every
\* back-translation loss back-propagated was computed just before with the
\* forward sub-model of its pair; and the step of the optimizer is never
\* called.
C23_TwoPasses ==
    op = "train_step" =>
        /\ \A i \in ParallelCalls(calls) : \A j \in SecondLoopCalls(calls) : i < j
        /\ \A j \in ParallelCalls(calls) :
               calls[j].fn = "criterion" =>
                   /\ j < Len(calls)
                   /\ calls[j + 1].fn = "optimizer.backward"
                   /\ calls[j + 1].key = calls[j].key
        /\ exc = "none" =>
               /\ BackwardKeys(calls, PairSet(lang_pairs)) = PresentPairs(lang_pairs, sample)
               /\ BackwardKeys(calls, BtKeySet(lang_pairs))
                      = [i \in 1..Len(lang_pairs) |-> _get_bt_dataset_key(lang_pairs[i])]
        /\ \A j \in BackwardEvents(calls, BtKeySet(lang_pairs)) :
               /\ calls[j].model = <<calls[j].key[2], calls[j].key[3]>>
               /\ calls[j - 1].fn = "criterion"
               /\ calls[j - 1].model = calls[j].model
               /\ calls[j - 1].key = calls[j].key
        /\ \A j \in 1..Len(calls) : calls[j].fn # "optimizer.step"

\* a train_step for en-de and en-fr with bt_dds returned: two parallel
\* losses, then two back-translation losses, each with its forward sub-model
C23_Witness ==
    /\ op = "train_step" /\ exc = "none" /\ args.bt_dds
    /\ lang_pairs = <<(<<"en", "de">>), (<<"en", "fr">>)>>
    /\ BackwardKeys(calls, PairSet(lang_pairs)) = lang_pairs
    /\ BackwardKeys(calls, BtKeySet(lang_pairs)) = <<(<<"bt:", "en", "de">>), (<<"bt:", "en", "fr">>)>>
    /\ \E j \in BackwardEvents(calls, {<<"bt:", "en", "fr">>}) : calls[j].model = <<"en", "fr">>
    /\ \E j \in 1..Len(calls) : calls[j].fn = "data_optimizer.step"

----------------------------------------------------------------------------
(* C22: load_dataset of a training split before build_model                *)

\* every file the split needs exists: the parallel data of every configured
\* pair and the monolingual data of every target
AllFilesExist ==
    \A p \in PairSet(lang_pairs) :
        HasParallel(load_split, p) /\ split_exists(load_split, p[2], "None")

\* C22 as stated: on a task that was set up and whose build_model has not
\* been called, load_dataset of a training split succeeds when all data
\* files exist, and the composite has a back-translation dataset for every
\* configured pair.
C22_Original ==
    (/\ op = "load_dataset" /\ task = "BtTranslationTask"
     /\ StartsWithTrain(load_split)
     /\ built_model = NoModel
     /\ AllFilesExist) =>
        /\ exc = "none"
        /\ load_split \in DOMAIN datasets
        /\ DOMAIN backtranslate_datasets = PairSet(lang_pairs)

----------------------------------------------------------------------------
(* aggregate_logging_outputs: the logs of the steps of one update, summed   *)
(* per key by the criterion and flattened.  A log dict maps a key to the    *)
(* log of the criterion; a flat key "key:metric" is the key followed by     *)
(* ":" and the metric, a global key is the metric alone.                    *)

\* "denoising:" + lang_pair
_get_denoising_dataset_key(lang_pair) == <<"denoising:", lang_pair[1], lang_pair[2]>>

\* d.get(k, default)
DictGet(d, k, default) == IF k \in DOMAIN d THEN d[k] ELSE default

\* {}
EmptyDict == [k \in {} |-> 0]

\* '{}:{}'.format(key, k)
FlatKey(key, k) == key \o <<":", k>>

\* the metrics a criterion class aggregates: the cross-entropy criterion has
\* no nll_loss of its own
CriterionMetrics(crit) ==
    IF crit = "LabelSmoothedCrossEntropyCriterion"
    THEN {"loss", "nll_loss", "sample_size", "ntokens", "nsentences"}
    ELSE {"loss", "sample_size", "ntokens", "nsentences"}

\* sum(log.get(k, 0) for log in logs), from the i-th log on
RECURSIVE LogSum(_, _, _)
LogSum(logs, k, i) ==
    IF i > Len(logs) THEN 0
    ELSE DictGet(logs[i], k, 0) + LogSum(logs, k, i + 1)

\* criterion.__class__.aggregate_logging_outputs(logs): the counts are summed,
\* the loss is the summed loss per sample and the nll_loss the summed
\* nll_loss per token (in nats), 0 when there is none
criterion_aggregate_logging_outputs(crit, logs) ==
    [k \in CriterionMetrics(crit) |->
        CASE k = "loss" ->
                 IF LogSum(logs, "sample_size", 1) > 0
                 THEN Rat(LogSum(logs, "loss", 1), LogSum(logs, "sample_size", 1))
                 ELSE Zero
          [] k = "nll_loss" ->
                 IF LogSum(logs, "ntokens", 1) > 0
                 THEN Rat(LogSum(logs, "nll_loss", 1), LogSum(logs, "ntokens", 1))
                 ELSE Zero
          [] OTHER -> RatInt(LogSum(logs, k, 1))]

\* sum(logging_output[key] for logging_output in agg_logging_outputs.values())
\* over the values of the keys in keys
RECURSIVE sum_over_languages(_, _, _)
sum_over_languages(agg_logging_outputs, keys, key) ==
    IF keys = {} THEN Zero
    ELSE LET lang_pair == CHOOSE p \in keys : TRUE
         IN  RatAdd(agg_logging_outputs[lang_pair][key],
                    sum_over_languages(agg_logging_outputs, keys \ {lang_pair}, key))

\* MultilingualTranslationTask.aggregate_logging_outputs; logging_output_keys
\* is a set of keys, the empty set standing for None as well (both are falsy)
MultilingualTranslationTask_aggregate_logging_outputs(logging_outputs, crit, logging_output_keys) ==
    LET keys == IF logging_output_keys = {}
                THEN PairSet(lang_pairs)
                ELSE logging_output_keys
    IN  Only({
            LET globals ==
                    {"loss", "sample_size", "nsentences", "ntokens"}
                    \cup (IF \E key \in keys : "nll_loss" \in DOMAIN agg_logging_outputs[key]
                          THEN {"nll_loss"} ELSE {})
            IN  [flat \in {FlatKey(key, k) : key \in keys, k \in CriterionMetrics(crit)}
                          \cup {<<k>> : k \in globals} |->
                    IF Len(flat) = 1
                    THEN sum_over_languages(agg_logging_outputs, keys, flat[1])
                    ELSE agg_logging_outputs[SubSeq(flat, 1, Len(flat) - 2)][flat[Len(flat)]]]
            : agg_logging_outputs \in
                {[key \in keys |->
                     criterion_aggregate_logging_outputs(crit,
                         [i \in 1..Len(logging_outputs) |->
                             DictGet(logging_outputs[i], key, EmptyDict)])]} })

\* BtTranslationTask.aggregate_logging_outputs handing every key of the logs
\* to the base class
BtTranslationTask_aggregate_logging_outputs_all(logging_outputs, crit) ==
    MultilingualTranslationTask_aggregate_logging_outputs(logging_outputs, crit,
        UNION {DOMAIN logging_outputs[i] : i \in 1..Len(logging_outputs)})

\* BtTranslationTask.aggregate_logging_outputs
BtTranslationTask_aggregate_logging_outputs(logging_outputs, crit) ==
    LET logging_output_keys ==
            UNION {DOMAIN logging_outputs[i] : i \in 1..Len(logging_outputs)}
        lang_pair_keys ==
            PairSet(lang_pairs)
            \cup {_get_bt_dataset_key(lang_pairs[i]) : i \in 1..Len(lang_pairs)}
            \cup {_get_denoising_dataset_key(lang_pairs[i]) : i \in 1..Len(lang_pairs)}
            \cup {_get_dds_bt_key(lang_pairs[i]) : i \in 1..Len(lang_pairs)}
    IN  MultilingualTranslationTask_aggregate_logging_outputs(logging_outputs, crit,
            logging_output_keys \cap lang_pair_keys)

\* task.aggregate_logging_outputs(logging_outputs, criterion), once
AggregateLoggingOutputs(logging_outputs, crit) ==
    /\ Constructed
    /\ aggregate_call = None
    /\ op' = "aggregate_logging_outputs"
    /\ exc' = "none"
    /\ aggregate_call' = [logging_outputs |-> logging_outputs, criterion |-> crit]
    /\ flat_logging_output' =
           IF task = "BtTranslationTask"
           THEN BtTranslationTask_aggregate_logging_outputs(logging_outputs, crit)
           ELSE MultilingualTranslationTask_aggregate_logging_outputs(logging_outputs,
                                                                      crit, {})
    /\ UNCHANGED <<parse_vars, args, lang_pairs, lambdas, baseline, params, num_updates,
                   step_vars, build_vars, dict_files, prepared, alter_call, altered,
                   data_files, datasets, backtranslate_datasets, load_split>>

----------------------------------------------------------------------------
(* SpecAgg: a task of either class for one or two pairs aggregating the    *)
(* logs of up to MaxLogs steps, with keys it tracks and keys it does not.  *)

\* the most steps whose logs are aggregated
MaxLogs == 2

AggLists ==
    { <<(<<"en", "de">>)>>,
      <<(<<"en", "de">>), (<<"de", "en">>)>>,
      <<(<<"en", "de">>), (<<"en", "fr">>)>> }

AggArgs ==
    [lambda_parallel_config : {<<"1", ".", "0">>},
     lambda_otf_bt_config : {<<"1", ".", "0">>},
     lambda_denoising_config : {<<"0", ".", "0">>},
     bt_dds : {TRUE}, lang_pairs : AggLists,
     training : {TRUE}, source_lang : {None}, target_lang : {None}]

\* the keys a step may log: a pair, its reverse, its back-translation and
\* denoising keys, and the back-translation key of a pair never configured
LogKeys ==
    <<(<<"en", "de">>), (<<"de", "en">>), (<<"bt:", "en", "de">>),
      (<<"denoising:", "en", "de">>), (<<"bt:", "fr", "en">>)>>

\* the log of the criterion under the i-th key: the sizes are distinct powers
\* of two, so that a sum tells which keys went into it
LogOf(i) ==
    [loss |-> i, nll_loss |-> i + 1, sample_size |-> 2 ^ (i - 1),
     ntokens |-> 2 ^ i, nsentences |-> 1]

\* the logs of one step: at most two keys
StepLogs == {[key \in {LogKeys[i] : i \in S} |-> LogOf(IndexOf(LogKeys, key))] :
             S \in {T \in SUBSET (1..Len(LogKeys)) : Cardinality(T) <= 2}}

\* the logs of the steps of one update
LoggingOutputs == UNION {[1..n -> StepLogs] : n \in 0..MaxLogs}

Criteria == {"CrossEntropyCriterion", "LabelSmoothedCrossEntropyCriterion"}

InitAgg ==
    /\ args \in AggArgs
    /\ NotConstructed

Aggregate ==
    /\ Constructed
    /\ aggregate_call = None
    /\ \E logging_outputs \in LoggingOutputs, crit \in Criteria :
           AggregateLoggingOutputs(logging_outputs, crit)

NextAgg == Construct \/ MultilingualTranslationTask_init \/ Aggregate

SpecAgg == InitAgg /\ [][NextAgg]_vars

----------------------------------------------------------------------------
(* C21: what aggregate_logging_outputs returns                             *)

\* the keys occurring in the logs of the call
LoggedKeys ==
    UNION {DOMAIN aggregate_call.logging_outputs[i] :
           i \in 1..Len(aggregate_call.logging_outputs)}

\* the keys tracked: the configured pairs, and for the Back-Translation task
\* the logged keys that are a configured pair, its "bt:" key, its
\* "denoising:" key or its reverse
TrackedKeys ==
    IF task = "BtTranslationTask"
    THEN {key \in LoggedKeys :
             \E p \in PairSet(lang_pairs) :
                 key \in {p, <<"bt:", p[1], p[2]>>, <<"denoising:", p[1], p[2]>>,
                          <<p[2], p[1]>>}}
    ELSE PairSet(lang_pairs)

\* the criterion's aggregate of the logs of one key over all steps
KeyAggregate(key) ==
    criterion_aggregate_logging_outputs(aggregate_call.criterion,
        [i \in 1..Len(aggregate_call.logging_outputs) |->
            IF key \in DOMAIN aggregate_call.logging_outputs[i]
            THEN aggregate_call.logging_outputs[i][key]
            ELSE EmptyDict])

\* the sum of a metric of the aggregates of the keys in keys
RECURSIVE MetricSum(_, _)
MetricSum(keys, k) ==
    IF keys = {} THEN Zero
    ELSE LET key == CHOOSE p \in keys : TRUE
         IN  RatAdd(KeyAggregate(key)[k], MetricSum(keys \ {key}, k))

\* C21: aggregate_logging_outputs returns, for every tracked key and every
\* metric of the criterion's aggregate of that key over all steps, the entry
\* "key:metric" with that value, and the entries loss, sample_size, ntokens
\* and nsentences, each the sum of the metric over exactly the tracked keys;
\* an entry of any other key is that of a configured pair returned when the
\* Back-Translation task tracks no key at all, and it is 0.
C21_FlatAndGlobalSums ==
    op = "aggregate_logging_outputs" =>
        /\ \A key \in TrackedKeys : \A k \in DOMAIN KeyAggregate(key) :
               /\ key \o <<":", k>> \in DOMAIN flat_logging_output
               /\ flat_logging_output[key \o <<":", k>>] = KeyAggregate(key)[k]
        /\ \A k \in {"loss", "sample_size", "ntokens", "nsentences"} :
               /\ <<k>> \in DOMAIN flat_logging_output
               /\ flat_logging_output[<<k>>] = MetricSum(TrackedKeys, k)
        /\ \A flat \in DOMAIN flat_logging_output :
               (Len(flat) > 1 /\ SubSeq(flat, 1, Len(flat) - 2) \notin TrackedKeys) =>
                   /\ TrackedKeys = {}
                   /\ SubSeq(flat, 1, Len(flat) - 2) \in PairSet(lang_pairs)
                   /\ flat_logging_output[flat] = Zero

\* a Back-Translation task for en-de aggregated two steps that logged en-de,
\* bt:en-de and the key bt:fr-en it does not track: 4 samples in the first
\* step and 1 + 4 in the second, the 16 samples of bt:fr-en left out
C21_Witness ==
    /\ op = "aggregate_logging_outputs" /\ task = "BtTranslationTask"
    /\ lang_pairs = <<(<<"en", "de">>)>>
    /\ Len(aggregate_call.logging_outputs) = 2
    /\ DOMAIN aggregate_call.logging_outputs[1]
           = {<<"bt:", "en", "de">>, <<"bt:", "fr", "en">>}
    /\ DOMAIN aggregate_call.logging_outputs[2] = {<<"en", "de">>, <<"bt:", "en", "de">>}
    /\ flat_logging_output[<<"sample_size">>] = RatInt(9)
    /\ flat_logging_output[<<"bt:", "en", "de", ":", "sample_size">>] = RatInt(8)
    /\ <<"bt:", "fr", "en", ":", "sample_size">> \notin DOMAIN flat_logging_output

=============================================================================
